---------------------------- MODULE Spec2Model ----------------------------
(***************************************************************************)
(* A model of the UWS-tools data plane: the in-memory message queue        *)
(* (Queue/Queue.py, Queue/QueueEndpoints.py), the resource-gated           *)
(* relational blob endpoints (DB/dbEndPoint.py, DB/db.py) and the bucket   *)
(* endpoints (Buckets/buckets.py), and the entity store of the relational  *)
(* and document services (DB/db.py, DB_NoSQL/db_noSQL.py,                  *)
(* DB_NoSQL/NoSQL_dbEndPoint.py).                                          *)
(*                                                                         *)
(* The specifications share the variables:                                 *)
(*   Spec          the queue endpoints, one request at a time;             *)
(*   SpecConc      the queue functions called from concurrent threads,     *)
(*                 one step per statement;                                 *)
(*   SpecGateway   the signature check, the admission check and the stores *)
(*                 of the blob endpoints, one request at a time;           *)
(*   SpecBlob      the blob endpoints with their reads and the query       *)
(*                 endpoint, one request at a time;                        *)
(*   SpecLimits    the handlers that read and write the resource limits,   *)
(*                 served concurrently, one step per statement;            *)
(*   SpecBlobSteps the bucket delete, one step per statement;              *)
(*   SpecEntity    insert, get, list and delete of both entity stores,     *)
(*                 one request at a time;                                  *)
(*   SpecRows      the relational entity store alone;                      *)
(*   SpecDocs      the document store with the connection attempts of its  *)
(*                 import, one step per attempt;                           *)
(*   SpecUnits     the sessions of the bucket endpoints, served            *)
(*                 concurrently;                                           *)
(*   SpecDeletes   the relational delete, served concurrently, one step    *)
(*                 per statement;                                          *)
(*   SpecShared    uploads of several owners and buckets under one         *)
(*                 filename, with list, download and delete.               *)
(***************************************************************************)
EXTENDS Integers, Sequences, FiniteSets, TLC

(***************************************************************************)
(* Bounds of the model.                                                    *)
(***************************************************************************)
\* number of distinct uuid4 values, hence of successful enqueues
MaxMsgs == 3
\* largest positive limit a read request carries (besides the default)
MaxLimit == 4
\* threads that call the queue functions concurrently
NThreads == 2
\* calls the threads start in all
MaxCalls == 3
\* the read requests also carry the limits -NegLimits .. -1
NegLimits == 2

\* largest primary key the files tables hand out
MaxRowId == 2

\* largest ObjectId counter the driver hands out
MaxOid == 2
\* largest primary key of a table while both entity stores are served
MaxEntId == 1

(***************************************************************************)
(* Program constants.                                                      *)
(***************************************************************************)
\* dbEndPoint.py DEFAULT_RESOURCE_LIMITS, the defaults of the environment
DefaultMaxCpuPercent == 90
DefaultMaxRamMb == 2048
DefaultMaxDiskGb == 10
\* Queue.py: def read_messages(limit=10); QueueEndpoints.py: limit: int = 10
DefaultLimit == 10

Ids == 1..MaxMsgs
Texts == {"a", "b"}
Limits == ((0 - NegLimits)..MaxLimit) \cup {DefaultLimit}
\* the limits of the concurrent callers: a negative one, one that cuts the
\* queue and the default
ConcLimits == {0 - 1, 1, DefaultLimit}
\* the text of the concurrent callers' messages
ConcTexts == {"a"}

VARIABLES
    \* ---- Queue/Queue.py
    queue,      \* _queue: the deque, head first, of [id, message]
    issued,     \* the values uuid.uuid4() has returned so far
    resp,       \* the last response of a queue endpoint
    removed,    \* history: the ids a delete has removed
    \* ---- Queue/Queue.py called from concurrent threads (SpecConc)
    lock,       \* _queue_lock: 0 when free, else the thread that holds it
    pc,         \* pc[t]: the statement thread t is at
    call,       \* call[t]: the function thread t is in, with its arguments
    loc,        \* loc[t]: its locals (message_id, i, msg, the list copy, the result)
    ncalls,     \* the calls started so far
    seqq,       \* history: the queue of the same calls run one at a time,
                \* in the order in which they took the lock
    exp,        \* history: exp[t]: what that run returns for t's call
    delok,      \* history: delok[m]: the deletes of id m that returned True
    \* ---- DB/dbEndPoint.py, DB/db.py, Buckets/buckets.py (SpecGateway)
    limits,     \* DEFAULT_RESOURCE_LIMITS
    disk,       \* the file system: disk[path] is the content, NoFile when absent
    tables,     \* the relational database of dbEndPoint: table name -> rows
    bfiles,     \* the rows of the files table of buckets.py
    gresp,      \* the last response of a blob or configuration endpoint, with
                \* what its request carried and what the admission check sampled
    \* ---- the handlers of dbEndPoint.py and buckets.py, one step per
    \* ---- statement (SpecLimits, SpecBlobSteps)
    wpc,        \* wpc[w]: the statement the request served by worker w is at
    wcall,      \* wcall[w]: the handler it runs, with what the request carries
    wloc,       \* wloc[w]: the handler's locals and its response
    wseen,      \* history: wseen[w][f]: the values limit f has held since
                \* the request of w started
    \* ---- DB_NoSQL/db_noSQL.py, DB_NoSQL/NoSQL_dbEndPoint.py and the
    \* ---- functions of DB/db.py (SpecEntity, SpecUnits)
    mongo,      \* the module state of db_noSQL.py: how far its import is,
                \* the attempts of get_mongo_client, `db`, and what bool(db)
                \* does with the installed pymongo
    colls,      \* the document database: collection name -> documents
    oids,       \* the ObjectIds the driver has generated so far
    eresp,      \* the last result of an entity operation, with its arguments
    units       \* the sessions and connections that are open: their owners

qvars == <<queue, issued, resp, removed>>
cvars == <<lock, pc, call, loc, ncalls, seqq, exp, delok>>
stores == <<disk, tables, bfiles>>
wvars == <<wpc, wcall, wloc, wseen>>
evars == <<mongo, colls, oids, eresp, units>>
gvars == <<limits, disk, tables, bfiles, gresp, wvars, evars>>

vars == <<queue, issued, resp, removed, cvars, gvars>>

Min(a, b) == IF a < b THEN a ELSE b
Max(a, b) == IF a > b THEN a ELSE b

(***************************************************************************)
(* Python's list slice s[:k]: the first k elements when k >= 0, all but    *)
(* the last -k elements when k < 0.                                        *)
(***************************************************************************)
PySliceTo(s, k) ==
    IF k >= 0 THEN SubSeq(s, 1, Min(k, Len(s)))
    ELSE SubSeq(s, 1, Max(0, Len(s) + k))

\* del s[i] (i counted from 1 here)
DelAt(s, i) == SubSeq(s, 1, i - 1) \o SubSeq(s, i + 1, Len(s))

(***************************************************************************)
(* Queue/Queue.py                                                          *)
(***************************************************************************)
\* uuid.uuid4(): a value no earlier call has returned
uuid4_collides(done) == Ids
uuid4(done) == Ids \ done

\* add_message: the queue after the append of {"id": mid, "message": text}
add_message_front(q, mid, text) == <<[id |-> mid, message |-> text]>> \o q
add_message(q, mid, text) == Append(q, [id |-> mid, message |-> text])

\* read_messages: list(_queue)[:limit]
read_messages(q, limit) == PySliceTo(q, limit)

\* the for loop of delete_message_by_id from index i on: the index of the
\* first message whose id is mid, 0 when the loop ends without a match
RECURSIVE scan_from(_, _, _)
scan_from(q, mid, i) ==
    IF i > Len(q) THEN 0
    ELSE IF q[i].id = mid THEN i
    ELSE scan_from(q, mid, i + 1)

\* delete_message_by_id: the returned flag and the queue afterwards
delete_message_by_id_next(q, mid) ==
    LET i == scan_from(q, mid, 1)
    IN  IF i = 0 THEN [deleted |-> FALSE, queue |-> q]
        ELSE [deleted |-> TRUE, queue |-> DelAt(q, Min(i + 1, Len(q)))]
delete_message_by_id_head(q, mid) ==
    LET i == scan_from(q, mid, 1)
    IN  IF i = 0 THEN [deleted |-> FALSE, queue |-> q]
        ELSE [deleted |-> TRUE, queue |-> Tail(q)]
delete_message_by_id(q, mid) ==
    LET i == scan_from(q, mid, 1)
    IN  IF i = 0 THEN [deleted |-> FALSE, queue |-> q]
        ELSE [deleted |-> TRUE, queue |-> DelAt(q, i)]

(***************************************************************************)
(* Queue/QueueEndpoints.py, one request per step.                          *)
(***************************************************************************)
NoResp == [op |-> "none", status |-> 0, id |-> 0, limit |-> 0, msgs |-> <<>>]

\* POST /queue/add with a body that has no "message" key
queue_add_missing ==
    /\ resp' = [op |-> "add", status |-> 400, id |-> 0, limit |-> 0, msgs |-> <<>>]
    /\ UNCHANGED <<queue, issued, removed, cvars, gvars>>

\* POST /queue/add with {"message": text}
queue_add(text) ==
    \E mid \in uuid4(issued) :
        /\ issued' = issued \cup {mid}
        /\ queue' = add_message(queue, mid, text)
        /\ resp' = [op |-> "add", status |-> 200, id |-> mid, limit |-> 0,
                    msgs |-> <<[id |-> mid, message |-> text]>>]
        /\ UNCHANGED <<removed, cvars, gvars>>

\* GET /queue/read?limit=N
queue_read_pop(limit) ==
    /\ resp' = [op |-> "read", status |-> 200, id |-> 0, limit |-> limit,
                msgs |-> read_messages(queue, limit)]
    /\ queue' = SubSeq(queue, Len(read_messages(queue, limit)) + 1, Len(queue))
    /\ UNCHANGED <<issued, removed, cvars, gvars>>
queue_read(limit) ==
    /\ resp' = [op |-> "read", status |-> 200, id |-> 0, limit |-> limit,
                msgs |-> read_messages(queue, limit)]
    /\ UNCHANGED <<queue, issued, removed, cvars, gvars>>

\* DELETE /queue/{message_id}
queue_delete(mid) ==
    LET r == delete_message_by_id(queue, mid)
    IN  /\ queue' = r.queue
        /\ resp' = [op |-> "delete", status |-> IF r.deleted THEN 200 ELSE 404,
                    id |-> mid, limit |-> 0, msgs |-> <<>>]
        /\ removed' = IF r.deleted THEN removed \cup {mid} ELSE removed
        /\ UNCHANGED <<issued, cvars, gvars>>

(***************************************************************************)
(* DB/dbEndPoint.py, DB/db.py and Buckets/buckets.py: what the requests    *)
(* carry and what the stores hold.                                         *)
(***************************************************************************)
VALID_SIGNATURE == "mysecretkey123"
Signatures == {VALID_SIGNATURE, "wrong"}

Filenames == {"f", "g"}
Contents == {"x", "y"}
Users == {"alice", "bob"}
BucketNames == {"b1", "b2"}
\* the tables the database holds, and the table names of the requests
ExistingTables == {"files"}
TableNames == {"files", "nosuch"}
RowIds == 1..MaxRowId

\* dbEndPoint writes to file.filename under the working directory,
\* buckets.py to os.path.join("uploads", file.filename)
db_path(filename) == [dir |-> ".", name |-> filename]
buckets_path(filename) == [dir |-> "uploads", name |-> filename]
Paths == {db_path(f) : f \in Filenames} \cup {buckets_path(f) : f \in Filenames}
NoFile == "<absent>"

\* the values psutil and shutil report, around the limits
CpuSamples == {50, DefaultMaxCpuPercent, DefaultMaxCpuPercent + 1}
RamSamples == {DefaultMaxRamMb, DefaultMaxRamMb + 1}
DiskSamples == {DefaultMaxDiskGb - 1, DefaultMaxDiskGb}

Envs == [cpu : CpuSamples, ram : RamSamples, free : DiskSamples]

DEFAULT_RESOURCE_LIMITS ==
    [max_cpu_percent |-> DefaultMaxCpuPercent,
     max_ram_mb |-> DefaultMaxRamMb,
     max_disk_gb |-> DefaultMaxDiskGb]

\* ResourceLimitsRequest: each field is None (<<>>) or an int (<<v>>)
LimitsRequests ==
    [max_cpu_percent : {<<>>, <<50>>, <<DefaultMaxCpuPercent>>},
     max_ram_mb : {<<>>, <<1024>>},
     max_disk_gb : {<<>>, <<5>>}]

NoEnv == [cpu |-> 0, ram |-> 0, free |-> 0]
\* content is the payload an accepted upload carried, body the bytes a
\* download returns and rows the rows a listing or a query returns
NoGResp == [handler |-> "none", sig |-> "", status |-> 0, sampled |-> <<>>,
            dim |-> "none", env |-> NoEnv, id |-> 0,
            content |-> NoFile, body |-> NoFile, rows |-> {}]

GResp(handler, sig, status, sampled, dim, env, id) ==
    [handler |-> handler, sig |-> sig, status |-> status, sampled |-> sampled,
     dim |-> dim, env |-> env, id |-> id,
     content |-> NoFile, body |-> NoFile, rows |-> {}]

\* ---- the entity store: DB_NoSQL/db_noSQL.py and DB/db.py
\* max_retries and the first retry_delay of get_mongo_client
max_retries == 5
retry_delay == 2
\* phase: how far the import of db_noSQL.py is; attempt: the loop variable
\* of get_mongo_client; tried: the connection attempts made; slept: the
\* seconds slept between them; db: the module variable; bool: what bool(db)
\* does on a Database of the installed pymongo
NoMongo == [phase |-> "unloaded", attempt |-> 0, tried |-> 0, slept |-> 0,
            delay |-> retry_delay, db |-> "unset", bool |-> "unset"]
\* pymongo up to 3.x gives a Database no __bool__ (it is truthy); from 4.0
\* on Database.__bool__ raises NotImplementedError
BoolFlavours == {"true", "raises"}
\* no collection exists
NoColls == [n \in {} |-> {}]
CollNames == {"items", "notes"}
\* the tables of a deployment with one entity kind besides the files table
EntityTables == {"files", "items"}
\* the ids of the requests: str(ObjectId) of the n-th generated ObjectId, or
\* a string that is no 24-digit hexadecimal number; a relational key n is
\* written the same way
Malformed == [wellformed |-> FALSE, n |-> 0]
NoKey == [wellformed |-> TRUE, n |-> 0]
Oids == 1..MaxOid
IdStrings == {[wellformed |-> TRUE, n |-> n] : n \in Oids} \cup {Malformed}
\* the rows of the relational requests
EntityRows == {[path |-> db_path("f"), filename |-> "f", bucket |-> "b1",
                user_id |-> u] : u \in Users}
\* the JSON bodies of the document requests (<<>> is None) and the uploads
EntityBodies == {<<>>, <<[kind |-> "note"]>>}
EntityUploads == {<<>>, <<"x">>}
NoEResp == [op |-> "none", kind |-> "none", backend |-> "", key |-> NoKey,
            status |-> 0, error |-> "none", count |-> 0, ret |-> NoKey,
            found |-> {}, sent |-> {}]
Threads == 1..NThreads

\* the requests in flight at once on the handlers modelled per statement
Workers == {"w1", "w2"}
\* the keys of DEFAULT_RESOURCE_LIMITS
Fields == {"max_cpu_percent", "max_ram_mb", "max_disk_gb"}
\* a ResourceLimitsRequest with every field None
NoReq == [max_cpu_percent |-> <<>>, max_ram_mb |-> <<>>, max_disk_gb |-> <<>>]
NoWCall == [op |-> "none", req |-> NoReq, sig |-> "", env |-> NoEnv, id |-> 0]
\* used: the limit values the comparisons read; wrote: the values the update
\* stored; body: the limits in the response; row, present: db_file and
\* os.path.exists(db_file.path); table, count, detail: table_name,
\* deleted_count and the detail of the response; unlinked: os.remove has
\* removed the file
NoWLoc == [status |-> 0, dim |-> "none", used |-> NoReq, wrote |-> NoReq,
           body |-> <<>>, row |-> <<>>, present |-> FALSE,
           table |-> "", count |-> 0, detail |-> "", unlinked |-> FALSE]
NoSeen == [f \in Fields |-> {}]

NoCall == [op |-> "none", text |-> "", limit |-> 0, id |-> 0]
NoLoc == [mid |-> 0, i |-> 0, msg |-> <<>>, copy |-> <<>>, ret |-> <<>>]

Init ==
    /\ queue = <<>>
    /\ issued = {}
    /\ resp = NoResp
    /\ removed = {}
    /\ lock = 0
    /\ pc = [t \in Threads |-> "idle"]
    /\ call = [t \in Threads |-> NoCall]
    /\ loc = [t \in Threads |-> NoLoc]
    /\ ncalls = 0
    /\ seqq = <<>>
    /\ exp = [t \in Threads |-> <<>>]
    /\ delok = [m \in Ids |-> 0]
    /\ limits = DEFAULT_RESOURCE_LIMITS
    /\ disk = [p \in Paths |-> NoFile]
    /\ tables = [n \in ExistingTables |-> {}]
    /\ bfiles = {}
    /\ gresp = NoGResp
    /\ wpc = [w \in Workers |-> "idle"]
    /\ wcall = [w \in Workers |-> NoWCall]
    /\ wloc = [w \in Workers |-> NoWLoc]
    /\ wseen = [w \in Workers |-> NoSeen]
    /\ mongo = NoMongo
    /\ colls = NoColls
    /\ oids = {}
    /\ eresp = NoEResp
    /\ units = {}

Next ==
    \/ queue_add_missing
    \/ \E text \in Texts : queue_add(text)
    \/ \E limit \in Limits : queue_read(limit)
    \/ \E mid \in Ids : queue_delete(mid)

Spec == Init /\ [][Next]_vars

(***************************************************************************)
(* Queue/Queue.py called from concurrent threads (FastAPI runs the `def`   *)
(* endpoints in a thread pool): one step per statement, `with _queue_lock` *)
(* entered when the lock is free and left on return.                       *)
(***************************************************************************)
\* threading.Lock.acquire returns only when no thread holds the lock
lock_free_ignored(l) == TRUE
lock_free(l) == l = 0

\* the same call run alone on queue q: the queue afterwards, and the result
serial_queue(q, c, mid) ==
    CASE c.op = "add"    -> add_message(q, mid, c.text)
      [] c.op = "read"   -> q
      [] c.op = "delete" -> delete_message_by_id(q, c.id).queue

serial_result(q, c, mid) ==
    CASE c.op = "add"    -> [id |-> mid, message |-> c.text]
      [] c.op = "read"   -> read_messages(q, c.limit)
      [] c.op = "delete" -> delete_message_by_id(q, c.id).deleted

\* `with _queue_lock:` entered by thread t, which goes on at statement nxt
acquire(t, nxt) ==
    /\ lock_free(lock)
    /\ lock' = t
    /\ pc' = [pc EXCEPT ![t] = nxt]
    /\ seqq' = serial_queue(seqq, call[t], loc[t].mid)
    /\ exp' = [exp EXCEPT ![t] = serial_result(seqq, call[t], loc[t].mid)]

\* add_message, lines 11-12: the id and the message dict
a_start(t, text) ==
    /\ pc[t] = "idle"
    /\ ncalls < MaxCalls
    /\ \E mid \in uuid4(issued) :
          /\ issued' = issued \cup {mid}
          /\ loc' = [loc EXCEPT ![t].mid = mid,
                                ![t].msg = [id |-> mid, message |-> text]]
    /\ call' = [call EXCEPT ![t] = [op |-> "add", text |-> text, limit |-> 0, id |-> 0]]
    /\ pc' = [pc EXCEPT ![t] = "a_lock"]
    /\ ncalls' = ncalls + 1
    /\ UNCHANGED <<queue, resp, removed, gvars, lock, seqq, exp, delok>>

\* line 13
a_lock(t) ==
    /\ pc[t] = "a_lock"
    /\ acquire(t, "a_append")
    /\ UNCHANGED <<queue, issued, resp, removed, gvars, call, loc, ncalls, delok>>

\* line 14
a_append(t) ==
    /\ pc[t] = "a_append"
    /\ queue' = Append(queue, loc[t].msg)
    /\ pc' = [pc EXCEPT ![t] = "a_unlock"]
    /\ UNCHANGED <<issued, resp, removed, gvars, lock, call, loc, ncalls, seqq, exp, delok>>

\* the end of the with block, and line 15
a_unlock(t) ==
    /\ pc[t] = "a_unlock"
    /\ lock' = 0
    /\ loc' = [loc EXCEPT ![t].ret = loc[t].msg]
    /\ pc' = [pc EXCEPT ![t] = "ret"]
    /\ UNCHANGED <<queue, issued, resp, removed, gvars, call, ncalls, seqq, exp, delok>>

\* read_messages(limit) is called
r_start(t, limit) ==
    /\ pc[t] = "idle"
    /\ ncalls < MaxCalls
    /\ call' = [call EXCEPT ![t] = [op |-> "read", text |-> "", limit |-> limit, id |-> 0]]
    /\ pc' = [pc EXCEPT ![t] = "r_lock"]
    /\ ncalls' = ncalls + 1
    /\ UNCHANGED <<queue, issued, resp, removed, gvars, lock, loc, seqq, exp, delok>>

\* line 19
r_lock(t) ==
    /\ pc[t] = "r_lock"
    /\ acquire(t, "r_copy")
    /\ UNCHANGED <<queue, issued, resp, removed, gvars, call, loc, ncalls, delok>>

\* line 20: list(_queue)
r_copy(t) ==
    /\ pc[t] = "r_copy"
    /\ loc' = [loc EXCEPT ![t].copy = queue]
    /\ pc' = [pc EXCEPT ![t] = "r_slice"]
    /\ UNCHANGED <<queue, issued, resp, removed, gvars, lock, call, ncalls, seqq, exp, delok>>

\* line 20: [:limit], the return and the end of the with block
r_slice(t) ==
    /\ pc[t] = "r_slice"
    /\ loc' = [loc EXCEPT ![t].ret = PySliceTo(loc[t].copy, call[t].limit)]
    /\ lock' = 0
    /\ pc' = [pc EXCEPT ![t] = "ret"]
    /\ UNCHANGED <<queue, issued, resp, removed, gvars, call, ncalls, seqq, exp, delok>>

\* delete_message_by_id(message_id) is called
d_start(t, mid) ==
    /\ pc[t] = "idle"
    /\ ncalls < MaxCalls
    /\ call' = [call EXCEPT ![t] = [op |-> "delete", text |-> "", limit |-> 0, id |-> mid]]
    /\ pc' = [pc EXCEPT ![t] = "d_lock"]
    /\ ncalls' = ncalls + 1
    /\ UNCHANGED <<queue, issued, resp, removed, gvars, lock, loc, seqq, exp, delok>>

\* line 24
d_lock(t) ==
    /\ pc[t] = "d_lock"
    /\ acquire(t, "d_next")
    /\ UNCHANGED <<queue, issued, resp, removed, gvars, call, loc, ncalls, delok>>

\* line 25: the next (i, msg) of enumerate(_queue); when there is none the
\* with block ends and line 29 returns False
d_next(t) ==
    /\ pc[t] = "d_next"
    /\ IF loc[t].i < Len(queue)
       THEN /\ loc' = [loc EXCEPT ![t].msg = queue[loc[t].i + 1]]
            /\ pc' = [pc EXCEPT ![t] = "d_cmp"]
            /\ UNCHANGED lock
       ELSE /\ loc' = [loc EXCEPT ![t].ret = FALSE]
            /\ pc' = [pc EXCEPT ![t] = "ret"]
            /\ lock' = 0
    /\ UNCHANGED <<queue, issued, resp, removed, gvars, call, ncalls, seqq, exp, delok>>

\* line 26
d_cmp(t) ==
    /\ pc[t] = "d_cmp"
    /\ IF loc[t].msg.id = call[t].id
       THEN /\ pc' = [pc EXCEPT ![t] = "d_del"]
            /\ UNCHANGED loc
       ELSE /\ pc' = [pc EXCEPT ![t] = "d_next"]
            /\ loc' = [loc EXCEPT ![t].i = loc[t].i + 1]
    /\ UNCHANGED <<queue, issued, resp, removed, gvars, lock, call, ncalls, seqq, exp, delok>>

\* line 27
d_del(t) ==
    /\ pc[t] = "d_del"
    /\ queue' = DelAt(queue, loc[t].i + 1)
    /\ pc' = [pc EXCEPT ![t] = "d_unlock"]
    /\ UNCHANGED <<issued, resp, removed, gvars, lock, call, loc, ncalls, seqq, exp, delok>>

\* line 28: return True, which ends the with block
d_unlock(t) ==
    /\ pc[t] = "d_unlock"
    /\ lock' = 0
    /\ loc' = [loc EXCEPT ![t].ret = TRUE]
    /\ delok' = [delok EXCEPT ![call[t].id] = delok[call[t].id] + 1]
    /\ pc' = [pc EXCEPT ![t] = "ret"]
    /\ UNCHANGED <<queue, issued, resp, removed, gvars, call, ncalls, seqq, exp>>

\* the caller has the result; the thread serves the next request
t_return(t) ==
    /\ pc[t] = "ret"
    /\ pc' = [pc EXCEPT ![t] = "idle"]
    /\ call' = [call EXCEPT ![t] = NoCall]
    /\ loc' = [loc EXCEPT ![t] = NoLoc]
    /\ exp' = [exp EXCEPT ![t] = <<>>]
    /\ UNCHANGED <<queue, issued, resp, removed, gvars, lock, ncalls, seqq, delok>>

NextConc ==
    \E t \in Threads :
        \/ \E text \in ConcTexts : a_start(t, text)
        \/ a_lock(t)
        \/ a_append(t)
        \/ a_unlock(t)
        \/ \E limit \in ConcLimits : r_start(t, limit)
        \/ r_lock(t)
        \/ r_copy(t)
        \/ r_slice(t)
        \/ \E mid \in Ids : d_start(t, mid)
        \/ d_lock(t)
        \/ d_next(t)
        \/ d_cmp(t)
        \/ d_del(t)
        \/ d_unlock(t)
        \/ t_return(t)

SpecConc == Init /\ [][NextConc]_vars

(***************************************************************************)
(* DB/db.py: the relational store. A table holds rows                      *)
(* [id, path, filename, bucket, user_id]; the integer primary key of a new *)
(* row is one more than the largest in the table.                          *)
(***************************************************************************)
MaxOf(S) == CHOOSE x \in S : \A y \in S : y <= x

next_id_count(rows) == Cardinality(rows) + 1
next_id(rows) == IF rows = {} THEN 1 ELSE MaxOf({r.id : r \in rows}) + 1

\* get_table: raises RuntimeError unless the table exists
table_exists(tbls, name) == name \in DOMAIN tbls

\* insert_entity: the tables after the insert (the new id is next_id)
insert_entity(tbls, name, entity) ==
    [tbls EXCEPT ![name] = @ \cup
        {[id |-> next_id(tbls[name]), path |-> entity.path,
          filename |-> entity.filename, bucket |-> entity.bucket,
          user_id |-> entity.user_id]}]

\* get_entity_by_id: the rows with that primary key (none or one)
get_entity_by_id(tbls, name, eid) == {r \in tbls[name] : r.id = eid}

\* delete_entity_by_id: the tables after the delete
delete_entity_by_id_all_tables(tbls, name, eid) ==
    [n \in DOMAIN tbls |-> {r \in tbls[n] : r.id # eid}]
delete_entity_by_id(tbls, name, eid) ==
    [tbls EXCEPT ![name] = {r \in @ : r.id # eid}]

(***************************************************************************)
(* DB/dbEndPoint.py                                                        *)
(***************************************************************************)
\* x_signature != VALID_SIGNATURE raises 401
authorized_any(sig) == TRUE
authorized(sig) == sig = VALID_SIGNATURE

AllSampled == <<"cpu", "ram", "disk">>

\* check_resource_limits: the status it raises (200 when it returns), the
\* dimension it names and the dimensions it sampled, in order
check_resource_limits_disk_first(lim, env) ==
    IF env.free < lim.max_disk_gb
    THEN [status |-> 507, dim |-> "disk", sampled |-> <<"disk">>]
    ELSE IF env.cpu > lim.max_cpu_percent
    THEN [status |-> 503, dim |-> "cpu", sampled |-> <<"disk", "cpu">>]
    ELSE IF env.ram > lim.max_ram_mb
    THEN [status |-> 503, dim |-> "ram", sampled |-> <<"disk", "cpu", "ram">>]
    ELSE [status |-> 200, dim |-> "none", sampled |-> <<"disk", "cpu", "ram">>]
check_resource_limits_admit_all(lim, env) ==
    [status |-> 200, dim |-> "none", sampled |-> AllSampled]
check_resource_limits_inclusive(lim, env) ==
    IF env.cpu >= lim.max_cpu_percent
    THEN [status |-> 503, dim |-> "cpu", sampled |-> <<"cpu">>]
    ELSE IF env.ram >= lim.max_ram_mb
    THEN [status |-> 503, dim |-> "ram", sampled |-> <<"cpu", "ram">>]
    ELSE IF env.free <= lim.max_disk_gb
    THEN [status |-> 507, dim |-> "disk", sampled |-> AllSampled]
    ELSE [status |-> 200, dim |-> "none", sampled |-> AllSampled]
check_resource_limits(lim, env) ==
    IF env.cpu > lim.max_cpu_percent
    THEN [status |-> 503, dim |-> "cpu", sampled |-> <<"cpu">>]
    ELSE IF env.ram > lim.max_ram_mb
    THEN [status |-> 503, dim |-> "ram", sampled |-> <<"cpu", "ram">>]
    ELSE IF env.free < lim.max_disk_gb
    THEN [status |-> 507, dim |-> "disk", sampled |-> AllSampled]
    ELSE [status |-> 200, dim |-> "none", sampled |-> AllSampled]

\* POST /upload/{table_name}; env is what check_resource_limits samples
db_upload_file_write_first(table, user, bucket, filename, content, sig) ==
    /\ UNCHANGED <<qvars, cvars, evars, wvars>>
    /\ IF ~authorized(sig)
       THEN /\ gresp' = GResp("db_upload", sig, 401, <<>>, "none", NoEnv, 0)
            /\ UNCHANGED <<limits, stores>>
       ELSE \E env \in Envs :
            LET adm == check_resource_limits(limits, env)
            IN  /\ disk' = [disk EXCEPT ![db_path(filename)] = content]
                /\ gresp' = GResp("db_upload", sig, adm.status, adm.sampled,
                                  adm.dim, env, 0)
                /\ UNCHANGED <<limits, tables, bfiles>>
db_upload_file_rollback(table, user, bucket, filename, content, sig) ==
    /\ UNCHANGED <<qvars, cvars, evars, wvars>>
    /\ IF ~authorized(sig)
       THEN /\ gresp' = GResp("db_upload", sig, 401, <<>>, "none", NoEnv, 0)
            /\ UNCHANGED <<limits, stores>>
       ELSE \E env \in Envs :
            LET adm == check_resource_limits(limits, env)
            IN  IF adm.status # 200
                THEN /\ gresp' = GResp("db_upload", sig, adm.status, adm.sampled,
                                       adm.dim, env, 0)
                     /\ UNCHANGED <<limits, stores>>
                ELSE IF table_exists(tables, table)
                THEN /\ next_id(tables[table]) <= MaxRowId
                     /\ disk' = [disk EXCEPT ![db_path(filename)] = content]
                     /\ tables' = insert_entity(tables, table,
                            [path |-> db_path(filename), filename |-> filename,
                             bucket |-> bucket, user_id |-> user])
                     /\ gresp' = [GResp("db_upload", sig, 200, adm.sampled,
                                        "none", env, next_id(tables[table]))
                                  EXCEPT !.content = content]
                     /\ UNCHANGED <<limits, bfiles>>
                ELSE /\ gresp' = GResp("db_upload", sig, 500, adm.sampled,
                                       "none", env, 0)
                     /\ UNCHANGED <<limits, stores>>
db_upload_file(table, user, bucket, filename, content, sig) ==
    /\ UNCHANGED <<qvars, cvars, evars, wvars>>
    /\ IF ~authorized(sig)
       THEN /\ gresp' = GResp("db_upload", sig, 401, <<>>, "none", NoEnv, 0)
            /\ UNCHANGED <<limits, stores>>
       ELSE \E env \in Envs :
            LET adm == check_resource_limits(limits, env)
            IN  IF adm.status # 200
                THEN /\ gresp' = GResp("db_upload", sig, adm.status, adm.sampled,
                                       adm.dim, env, 0)
                     /\ UNCHANGED <<limits, stores>>
                ELSE /\ disk' = [disk EXCEPT ![db_path(filename)] = content]
                     /\ IF table_exists(tables, table)
                        THEN /\ next_id(tables[table]) <= MaxRowId
                             /\ tables' = insert_entity(tables, table,
                                    [path |-> db_path(filename), filename |-> filename,
                                     bucket |-> bucket, user_id |-> user])
                             /\ gresp' = [GResp("db_upload", sig, 200, adm.sampled,
                                                "none", env, next_id(tables[table]))
                                          EXCEPT !.content = content]
                        ELSE /\ tables' = tables
                             /\ gresp' = GResp("db_upload", sig, 500, adm.sampled,
                                               "none", env, 0)
                     /\ UNCHANGED <<limits, bfiles>>

\* DELETE /delete/{table_name}/{entity_id}
db_delete_file(table, eid) ==
    /\ UNCHANGED <<qvars, cvars, evars, wvars>>
    /\ IF ~table_exists(tables, table)
       THEN /\ gresp' = GResp("db_delete", "", 500, <<>>, "none", NoEnv, eid)
            /\ UNCHANGED <<limits, stores>>
       ELSE IF get_entity_by_id(tables, table, eid) = {}
       THEN /\ gresp' = GResp("db_delete", "", 404, <<>>, "none", NoEnv, eid)
            /\ UNCHANGED <<limits, stores>>
       ELSE LET db_file == CHOOSE r \in get_entity_by_id(tables, table, eid) : TRUE
            IN  /\ disk' = [disk EXCEPT ![db_file.path] = NoFile]
                /\ tables' = delete_entity_by_id(tables, table, eid)
                /\ gresp' = GResp("db_delete", "", 200, <<>>, "none", NoEnv, eid)
                /\ UNCHANGED <<limits, bfiles>>

\* POST /config/resource-limits
update_resource_limits(req, sig) ==
    /\ UNCHANGED <<qvars, cvars, evars, wvars>>
    /\ IF ~authorized(sig)
       THEN /\ gresp' = GResp("update_limits", sig, 401, <<>>, "none", NoEnv, 0)
            /\ UNCHANGED <<limits, stores>>
       ELSE /\ limits' =
                 [max_cpu_percent |-> IF req.max_cpu_percent # <<>>
                                      THEN req.max_cpu_percent[1]
                                      ELSE limits.max_cpu_percent,
                  max_ram_mb |-> IF req.max_ram_mb # <<>>
                                 THEN req.max_ram_mb[1] ELSE limits.max_ram_mb,
                  max_disk_gb |-> IF req.max_disk_gb # <<>>
                                  THEN req.max_disk_gb[1] ELSE limits.max_disk_gb]
            /\ gresp' = GResp("update_limits", sig, 200, <<>>, "none", NoEnv, 0)
            /\ UNCHANGED stores

(***************************************************************************)
(* Buckets/buckets.py                                                      *)
(***************************************************************************)
\* POST /upload
buckets_upload_file_bare_path(user, bucket, filename, content, sig) ==
    /\ UNCHANGED <<qvars, cvars, evars, wvars>>
    /\ IF ~authorized(sig)
       THEN /\ gresp' = GResp("buckets_upload", sig, 401, <<>>, "none", NoEnv, 0)
            /\ UNCHANGED <<limits, stores>>
       ELSE /\ next_id(bfiles) <= MaxRowId
            /\ disk' = [disk EXCEPT ![buckets_path(filename)] = content]
            /\ bfiles' = bfiles \cup
                  {[id |-> next_id(bfiles), path |-> db_path(filename),
                    filename |-> filename, bucket |-> bucket, user_id |-> user]}
            /\ gresp' = [GResp("buckets_upload", sig, 200, <<>>, "none", NoEnv,
                               next_id(bfiles))
                         EXCEPT !.content = content]
            /\ UNCHANGED <<limits, tables>>
buckets_upload_file_replaces_row(user, bucket, filename, content, sig) ==
    /\ UNCHANGED <<qvars, cvars, evars, wvars>>
    /\ IF ~authorized(sig)
       THEN /\ gresp' = GResp("buckets_upload", sig, 401, <<>>, "none", NoEnv, 0)
            /\ UNCHANGED <<limits, stores>>
       ELSE /\ next_id(bfiles) <= MaxRowId
            /\ disk' = [disk EXCEPT ![buckets_path(filename)] = content]
            /\ bfiles' = {r \in bfiles : r.filename # filename} \cup
                  {[id |-> next_id(bfiles), path |-> buckets_path(filename),
                    filename |-> filename, bucket |-> bucket, user_id |-> user]}
            /\ gresp' = [GResp("buckets_upload", sig, 200, <<>>, "none", NoEnv,
                               next_id(bfiles))
                         EXCEPT !.content = content]
            /\ UNCHANGED <<limits, tables>>
buckets_upload_file(user, bucket, filename, content, sig) ==
    /\ UNCHANGED <<qvars, cvars, evars, wvars>>
    /\ IF ~authorized(sig)
       THEN /\ gresp' = GResp("buckets_upload", sig, 401, <<>>, "none", NoEnv, 0)
            /\ UNCHANGED <<limits, stores>>
       ELSE /\ next_id(bfiles) <= MaxRowId
            /\ disk' = [disk EXCEPT ![buckets_path(filename)] = content]
            /\ bfiles' = bfiles \cup
                  {[id |-> next_id(bfiles), path |-> buckets_path(filename),
                    filename |-> filename, bucket |-> bucket, user_id |-> user]}
            /\ gresp' = [GResp("buckets_upload", sig, 200, <<>>, "none", NoEnv,
                               next_id(bfiles))
                         EXCEPT !.content = content]
            /\ UNCHANGED <<limits, tables>>

\* DELETE /delete/{file_id}
buckets_delete_file_keeps_shared(fid) ==
    /\ UNCHANGED <<qvars, cvars, evars, wvars>>
    /\ IF {r \in bfiles : r.id = fid} = {}
       THEN /\ gresp' = GResp("buckets_delete", "", 404, <<>>, "none", NoEnv, fid)
            /\ UNCHANGED <<limits, stores>>
       ELSE LET db_file == CHOOSE r \in bfiles : r.id = fid
            IN  /\ disk' = IF \E r \in bfiles \ {db_file} : r.path = db_file.path
                           THEN disk
                           ELSE [disk EXCEPT ![db_file.path] = NoFile]
                /\ bfiles' = bfiles \ {db_file}
                /\ gresp' = GResp("buckets_delete", "", 200, <<>>, "none", NoEnv, fid)
                /\ UNCHANGED <<limits, tables>>
buckets_delete_file_noop(fid) ==
    /\ UNCHANGED <<qvars, cvars, evars, wvars>>
    /\ gresp' = GResp("buckets_delete", "", 200, <<>>, "none", NoEnv, fid)
    /\ UNCHANGED <<limits, stores>>
buckets_delete_file(fid) ==
    /\ UNCHANGED <<qvars, cvars, evars, wvars>>
    /\ IF {r \in bfiles : r.id = fid} = {}
       THEN /\ gresp' = GResp("buckets_delete", "", 404, <<>>, "none", NoEnv, fid)
            /\ UNCHANGED <<limits, stores>>
       ELSE LET db_file == CHOOSE r \in bfiles : r.id = fid
            IN  /\ disk' = [disk EXCEPT ![db_file.path] = NoFile]
                /\ bfiles' = bfiles \ {db_file}
                /\ gresp' = GResp("buckets_delete", "", 200, <<>>, "none", NoEnv, fid)
                /\ UNCHANGED <<limits, tables>>

\* what the requests of SpecGateway carry
GwFilenames == {"f"}
GwUsers == {"alice"}
GwBuckets == {"b1"}

NextGateway ==
    \/ \E table \in TableNames, user \in GwUsers, bucket \in GwBuckets,
          filename \in GwFilenames, content \in Contents, sig \in Signatures :
          db_upload_file(table, user, bucket, filename, content, sig)
    \/ \E table \in TableNames, eid \in RowIds : db_delete_file(table, eid)
    \/ \E req \in LimitsRequests, sig \in Signatures :
          update_resource_limits(req, sig)
    \/ \E user \in GwUsers, bucket \in GwBuckets, filename \in GwFilenames,
          content \in Contents, sig \in Signatures :
          buckets_upload_file(user, bucket, filename, content, sig)
    \/ \E fid \in RowIds : buckets_delete_file(fid)

SpecGateway == Init /\ [][NextGateway]_vars

(***************************************************************************)
(* The read endpoints of DB/dbEndPoint.py and Buckets/buckets.py and the   *)
(* query endpoint of dbEndPoint.py. A read samples nothing; env is the     *)
(* CPU, RAM and free disk of the machine while the request is served.      *)
(***************************************************************************)
\* the machine while a read is served: idle, or with CPU, RAM and free
\* disk all beyond the default limits
ReadEnvs ==
    {[cpu |-> 50, ram |-> DefaultMaxRamMb, free |-> DefaultMaxDiskGb],
     [cpu |-> DefaultMaxCpuPercent + 1, ram |-> DefaultMaxRamMb + 1,
      free |-> DefaultMaxDiskGb - 1]}

\* download_file of both services: 404 unless the row with that primary key
\* exists and os.path.exists(row.path), else the bytes of the file at row.path
download_result_row_only(rows, dsk, fid) ==
    LET found == {r \in rows : r.id = fid}
    IN  IF found = {}
        THEN [status |-> 404, body |-> NoFile]
        ELSE [status |-> 200, body |-> dsk[(CHOOSE r \in found : TRUE).path]]
download_result(rows, dsk, fid) ==
    LET found == {r \in rows : r.id = fid}
    IN  IF found = {} \/ dsk[(CHOOSE r \in found : TRUE).path] = NoFile
        THEN [status |-> 404, body |-> NoFile]
        ELSE [status |-> 200, body |-> dsk[(CHOOSE r \in found : TRUE).path]]

\* GET /files/{table_name}
db_list_files(table) ==
    /\ UNCHANGED <<qvars, cvars, evars, wvars>>
    /\ \E env \in ReadEnvs :
          gresp' = IF table_exists(tables, table)
                   THEN [GResp("db_list", "", 200, <<>>, "none", env, 0)
                           EXCEPT !.rows = tables[table]]
                   ELSE GResp("db_list", "", 500, <<>>, "none", env, 0)
    /\ UNCHANGED <<limits, stores>>

\* GET /download/{table_name}/{entity_id}
db_download_file_gated(table, eid) ==
    /\ UNCHANGED <<qvars, cvars, evars, wvars>>
    /\ \E env \in ReadEnvs :
          LET adm == check_resource_limits(limits, env)
          IN  gresp' = GResp("db_download", "", adm.status, adm.sampled,
                             adm.dim, env, eid)
    /\ UNCHANGED <<limits, stores>>
db_download_file(table, eid) ==
    /\ UNCHANGED <<qvars, cvars, evars, wvars>>
    /\ \E env \in ReadEnvs :
          gresp' = IF table_exists(tables, table)
                   THEN LET d == download_result(tables[table], disk, eid)
                        IN  [GResp("db_download", "", d.status, <<>>, "none", env, eid)
                               EXCEPT !.body = d.body]
                   ELSE GResp("db_download", "", 500, <<>>, "none", env, eid)
    /\ UNCHANGED <<limits, stores>>

\* buckets.py GET /files
buckets_list_files ==
    /\ UNCHANGED <<qvars, cvars, evars, wvars>>
    /\ \E env \in ReadEnvs :
          gresp' = [GResp("buckets_list", "", 200, <<>>, "none", env, 0)
                      EXCEPT !.rows = bfiles]
    /\ UNCHANGED <<limits, stores>>

\* buckets.py GET /download/{file_id}
buckets_download_file(fid) ==
    /\ UNCHANGED <<qvars, cvars, evars, wvars>>
    /\ \E env \in ReadEnvs :
          LET d == download_result(bfiles, disk, fid)
          IN  gresp' = [GResp("buckets_download", "", d.status, <<>>, "none", env, fid)
                          EXCEPT !.body = d.body]
    /\ UNCHANGED <<limits, stores>>

\* the queries of the requests: SELECT * FROM <table> and DELETE FROM <table>
SqlQueries == [verb : {"SELECT", "DELETE"}, table : TableNames]

\* db.py execute_sql_query: a failing statement raises RuntimeError; a
\* SELECT returns the rows, another statement is committed
execute_sql_query(tbls, query) ==
    IF ~table_exists(tbls, query.table)
    THEN [ok |-> FALSE, rows |-> {}, tables |-> tbls]
    ELSE IF query.verb = "SELECT"
    THEN [ok |-> TRUE, rows |-> tbls[query.table], tables |-> tbls]
    ELSE [ok |-> TRUE, rows |-> {}, tables |-> [tbls EXCEPT ![query.table] = {}]]

\* POST /sql/query; the handler name of the response tells a SELECT from a
\* statement that writes
execute_sql(query, sig) ==
    /\ UNCHANGED <<qvars, cvars, evars, wvars>>
    /\ LET handler == IF query.verb = "SELECT" THEN "sql_select" ELSE "sql_write"
       IN  IF ~authorized(sig)
           THEN /\ gresp' = GResp(handler, sig, 401, <<>>, "none", NoEnv, 0)
                /\ UNCHANGED <<limits, stores>>
           ELSE \E env \in Envs :
                LET adm == check_resource_limits(limits, env)
                    res == execute_sql_query(tables, query)
                IN  IF adm.status # 200
                    THEN /\ gresp' = GResp(handler, sig, adm.status, adm.sampled,
                                           adm.dim, env, 0)
                         /\ UNCHANGED <<limits, stores>>
                    ELSE /\ tables' = res.tables
                         /\ gresp' = [GResp(handler, sig, IF res.ok THEN 200 ELSE 400,
                                            adm.sampled, "none", env, 0)
                                        EXCEPT !.rows = res.rows]
                         /\ UNCHANGED <<limits, disk, bfiles>>

NextBlob ==
    \/ \E table \in TableNames, user \in GwUsers, bucket \in GwBuckets,
          filename \in GwFilenames, content \in Contents, sig \in Signatures :
          db_upload_file(table, user, bucket, filename, content, sig)
    \/ \E table \in TableNames : db_list_files(table)
    \/ \E table \in TableNames, eid \in RowIds : db_download_file(table, eid)
    \/ \E table \in TableNames, eid \in RowIds : db_delete_file(table, eid)
    \/ \E query \in SqlQueries, sig \in Signatures : execute_sql(query, sig)
    \/ \E user \in GwUsers, bucket \in GwBuckets, filename \in GwFilenames,
          content \in Contents, sig \in Signatures :
          buckets_upload_file(user, bucket, filename, content, sig)
    \/ buckets_list_files
    \/ \E fid \in RowIds : buckets_download_file(fid)
    \/ \E fid \in RowIds : buckets_delete_file(fid)

SpecBlob == Init /\ [][NextBlob]_vars

(***************************************************************************)
(* DB/dbEndPoint.py: update_resource_limits, get_resource_limits and       *)
(* check_resource_limits (called by execute_sql) served concurrently, one  *)
(* step per statement. DEFAULT_RESOURCE_LIMITS is one dict of the process; *)
(* every handler reads and writes its keys in place.                       *)
(***************************************************************************)
\* limits = DEFAULT_RESOURCE_LIMITS; limits[f]: the value the dict holds for
\* key f when the statement runs
limits_read_import_time(lim, f) == DEFAULT_RESOURCE_LIMITS[f]
limits_read(lim, f) == lim[f]

\* the request of worker w arrives: the handler is entered
w_enter(w, c, nxt) ==
    /\ wpc[w] = "idle"
    /\ wcall' = [wcall EXCEPT ![w] = c]
    /\ wpc' = [wpc EXCEPT ![w] = nxt]
    /\ wloc' = [wloc EXCEPT ![w].status = IF nxt = "ret" THEN 401 ELSE 0]
    /\ wseen' = [wseen EXCEPT ![w] =
                    IF c.op \in {"check", "get"} /\ nxt # "ret"
                    THEN [f \in Fields |-> {limits[f]}] ELSE NoSeen]

\* update_resource_limits, lines 211-213: the signature check
lu_start(w, req, sig) ==
    /\ w_enter(w, [op |-> "update", req |-> req, sig |-> sig, env |-> NoEnv, id |-> 0],
               IF authorized(sig) THEN "u_cpu" ELSE "ret")
    /\ UNCHANGED <<qvars, cvars, evars, limits, stores, gresp>>

\* `if limits.<f> is not None: DEFAULT_RESOURCE_LIMITS[<f>] = limits.<f>`
set_field(w, f, nxt) ==
    /\ wpc' = [wpc EXCEPT ![w] = nxt]
    /\ IF wcall[w].req[f] # <<>>
       THEN /\ limits' = [limits EXCEPT ![f] = wcall[w].req[f][1]]
            /\ wloc' = [wloc EXCEPT ![w].wrote[f] = wcall[w].req[f]]
            /\ wseen' = [v \in Workers |->
                            IF wpc[v] \in {"c_cpu", "c_ram", "c_disk", "g_ret"}
                            THEN [wseen[v] EXCEPT ![f] = @ \cup {wcall[w].req[f][1]}]
                            ELSE wseen[v]]
       ELSE UNCHANGED <<limits, wloc, wseen>>
    /\ UNCHANGED <<qvars, cvars, evars, stores, gresp, wcall>>

\* lines 217-218
lu_cpu(w) == wpc[w] = "u_cpu" /\ set_field(w, "max_cpu_percent", "u_ram")
\* lines 219-220
lu_ram_skipped(w) ==
    /\ wpc[w] = "u_ram"
    /\ wpc' = [wpc EXCEPT ![w] = "u_disk"]
    /\ UNCHANGED <<qvars, cvars, evars, limits, stores, gresp, wcall, wloc, wseen>>
lu_ram(w) == wpc[w] = "u_ram" /\ set_field(w, "max_ram_mb", "u_disk")
\* lines 221-222
lu_disk(w) == wpc[w] = "u_disk" /\ set_field(w, "max_disk_gb", "u_ret")

\* lines 224-228: the response carries new_limits
lu_return(w) ==
    /\ wpc[w] = "u_ret"
    /\ wpc' = [wpc EXCEPT ![w] = "ret"]
    /\ wloc' = [wloc EXCEPT ![w].status = 200, ![w].body = <<limits>>]
    /\ UNCHANGED <<qvars, cvars, evars, limits, stores, gresp, wcall, wseen>>

\* execute_sql, lines 133-138: the signature check and the call of
\* check_resource_limits; env is what the check will sample
lc_start(w, env, sig) ==
    /\ w_enter(w, [op |-> "check", req |-> NoReq, sig |-> sig, env |-> env, id |-> 0],
               IF authorized(sig) THEN "c_cpu" ELSE "ret")
    /\ UNCHANGED <<qvars, cvars, evars, limits, stores, gresp>>

\* one comparison of check_resource_limits: the limit is read, and the
\* check raises status with dimension dim when the sample violates it
compare(w, f, violated, status, dim, nxt) ==
    LET lim == limits_read(limits, f)
    IN  /\ wloc' = [wloc EXCEPT ![w].used[f] = <<lim>>,
                                ![w].status = IF violated[lim] THEN status
                                              ELSE IF nxt = "ret" THEN 200 ELSE 0,
                                ![w].dim = IF violated[lim] THEN dim ELSE "none"]
        /\ wpc' = [wpc EXCEPT ![w] = IF violated[lim] THEN "ret" ELSE nxt]
        /\ UNCHANGED <<qvars, cvars, evars, limits, stores, gresp, wcall, wseen>>

\* the values a limit can hold
LimitValues ==
    UNION {{DEFAULT_RESOURCE_LIMITS[f]} \cup {r[f][1] : r \in {q \in LimitsRequests : q[f] # <<>>}}
           : f \in Fields}

\* lines 104-109
lc_cpu(w) ==
    /\ wpc[w] = "c_cpu"
    /\ compare(w, "max_cpu_percent", [l \in LimitValues |-> wcall[w].env.cpu > l],
               503, "cpu", "c_ram")
\* lines 112-118
lc_ram(w) ==
    /\ wpc[w] = "c_ram"
    /\ compare(w, "max_ram_mb", [l \in LimitValues |-> wcall[w].env.ram > l],
               503, "ram", "c_disk")
\* lines 121-127; when the check returns the query is admitted
lc_disk(w) ==
    /\ wpc[w] = "c_disk"
    /\ compare(w, "max_disk_gb", [l \in LimitValues |-> wcall[w].env.free < l],
               507, "disk", "ret")

\* get_resource_limits, lines 198-200
lg_start(w, sig) ==
    /\ w_enter(w, [op |-> "get", req |-> NoReq, sig |-> sig, env |-> NoEnv, id |-> 0],
               IF authorized(sig) THEN "g_ret" ELSE "ret")
    /\ UNCHANGED <<qvars, cvars, evars, limits, stores, gresp>>

\* lines 202-205
lg_return(w) ==
    /\ wpc[w] = "g_ret"
    /\ wpc' = [wpc EXCEPT ![w] = "ret"]
    /\ wloc' = [wloc EXCEPT ![w].status = 200,
                            ![w].used = [f \in Fields |-> <<limits_read(limits, f)>>],
                            ![w].body = <<[f \in Fields |-> limits_read(limits, f)]>>]
    /\ UNCHANGED <<qvars, cvars, evars, limits, stores, gresp, wcall, wseen>>

\* the response of worker w is sent; the worker serves the next request
w_done(w) ==
    /\ wpc[w] = "ret"
    /\ wpc' = [wpc EXCEPT ![w] = "idle"]
    /\ wcall' = [wcall EXCEPT ![w] = NoWCall]
    /\ wloc' = [wloc EXCEPT ![w] = NoWLoc]
    /\ wseen' = [wseen EXCEPT ![w] = NoSeen]
    /\ UNCHANGED <<qvars, cvars, evars, limits, stores, gresp>>

\* what the requests of SpecLimits carry: an update names the CPU limit or
\* not, and the RAM and disk limits together or not at all
LimReqs == {r \in LimitsRequests : (r.max_ram_mb = <<>>) <=> (r.max_disk_gb = <<>>)}
\* the samples of its checks: one at the default limits, one with less
\* free disk than the default limit asks for
LimEnvs ==
    {[cpu |-> DefaultMaxCpuPercent, ram |-> DefaultMaxRamMb, free |-> DefaultMaxDiskGb],
     [cpu |-> 50, ram |-> DefaultMaxRamMb, free |-> DefaultMaxDiskGb - 1]}

NextLimits ==
    \E w \in Workers :
        \/ \E req \in LimReqs, sig \in Signatures : lu_start(w, req, sig)
        \/ lu_cpu(w)
        \/ lu_ram(w)
        \/ lu_disk(w)
        \/ lu_return(w)
        \/ \E env \in LimEnvs, sig \in Signatures : lc_start(w, env, sig)
        \/ lc_cpu(w)
        \/ lc_ram(w)
        \/ lc_disk(w)
        \/ \E sig \in Signatures : lg_start(w, sig)
        \/ lg_return(w)
        \/ w_done(w)

SpecLimits == Init /\ [][NextLimits]_vars

(***************************************************************************)
(* Buckets/buckets.py delete_file, one step per statement, between         *)
(* uploads and downloads; one request is served at a time.                 *)
(***************************************************************************)
\* no request is in flight
AllIdle == \A w \in Workers : wpc[w] = "idle"

\* the session a request of worker w for file id fid opens
session(w, fid) == [by |-> w, id |-> fid]

\* lines 102-106: db = SessionLocal() and the row lookup; when there is no
\* row with that id the session is closed and the answer is 404
bd_start(w, fid) ==
    /\ wpc[w] = "idle"
    /\ wcall' = [wcall EXCEPT ![w] = [op |-> "bdelete", req |-> NoReq, sig |-> "",
                                      env |-> NoEnv, id |-> fid]]
    /\ IF \E r \in bfiles : r.id = fid
       THEN /\ wloc' = [wloc EXCEPT ![w].row = <<CHOOSE r \in bfiles : r.id = fid>>]
            /\ wpc' = [wpc EXCEPT ![w] = "bd_exists"]
            /\ units' = units \cup {session(w, fid)}
       ELSE /\ wloc' = [wloc EXCEPT ![w].status = 404]
            /\ wpc' = [wpc EXCEPT ![w] = "ret"]
            /\ units' = units
    /\ UNCHANGED <<qvars, cvars, mongo, colls, oids, eresp, limits, stores, gresp,
                   wseen>>

\* line 108: if os.path.exists(db_file.path)
bd_exists_missing_is_404(w) ==
    /\ wpc[w] = "bd_exists"
    /\ LET present == disk[wloc[w].row[1].path] # NoFile
       IN  /\ wloc' = [wloc EXCEPT ![w].present = present,
                                   ![w].status = IF present THEN 0 ELSE 404]
           /\ wpc' = [wpc EXCEPT ![w] = IF present THEN "bd_remove" ELSE "ret"]
    /\ UNCHANGED <<qvars, cvars, evars, limits, stores, gresp, wcall, wseen>>
bd_exists(w) ==
    /\ wpc[w] = "bd_exists"
    /\ LET present == disk[wloc[w].row[1].path] # NoFile
       IN  /\ wloc' = [wloc EXCEPT ![w].present = present]
           /\ wpc' = [wpc EXCEPT ![w] = IF present THEN "bd_remove" ELSE "bd_commit"]
    /\ UNCHANGED <<qvars, cvars, evars, limits, stores, gresp, wcall, wseen>>

\* line 109: os.remove(db_file.path), which raises FileNotFoundError (the
\* request fails with 500) when the file is gone
bd_remove(w) ==
    /\ wpc[w] = "bd_remove"
    /\ IF disk[wloc[w].row[1].path] = NoFile
       THEN /\ wloc' = [wloc EXCEPT ![w].status = 500]
            /\ wpc' = [wpc EXCEPT ![w] = "ret"]
            /\ UNCHANGED disk
       ELSE /\ disk' = [disk EXCEPT ![wloc[w].row[1].path] = NoFile]
            /\ wpc' = [wpc EXCEPT ![w] = "bd_commit"]
            /\ UNCHANGED wloc
    /\ UNCHANGED <<qvars, cvars, evars, limits, tables, bfiles, gresp, wcall, wseen>>

\* lines 111-113: db.delete(db_file); db.commit(); db.close()
bd_commit(w) ==
    /\ wpc[w] = "bd_commit"
    /\ bfiles' = bfiles \ {wloc[w].row[1]}
    /\ units' = units \ {session(w, wcall[w].id)}
    /\ wpc' = [wpc EXCEPT ![w] = "bd_ret"]
    /\ UNCHANGED <<qvars, cvars, mongo, colls, oids, eresp, limits, disk, tables,
                   gresp, wcall, wloc, wseen>>

\* line 114
bd_return(w) ==
    /\ wpc[w] = "bd_ret"
    /\ wloc' = [wloc EXCEPT ![w].status = 200]
    /\ wpc' = [wpc EXCEPT ![w] = "ret"]
    /\ UNCHANGED <<qvars, cvars, evars, limits, stores, gresp, wcall, wseen>>

\* the requests served while no other request is in flight
bs_upload_file(user, bucket, filename, content, sig) ==
    AllIdle /\ buckets_upload_file(user, bucket, filename, content, sig)
bs_download_file(fid) == AllIdle /\ buckets_download_file(fid)
bs_delete_file(w, fid) == AllIdle /\ bd_start(w, fid)

NextBlobSteps ==
    \/ \E user \in GwUsers, bucket \in GwBuckets, filename \in GwFilenames,
          content \in Contents, sig \in Signatures :
          bs_upload_file(user, bucket, filename, content, sig)
    \/ \E fid \in RowIds : bs_download_file(fid)
    \/ \E w \in Workers :
          \/ \E fid \in RowIds : bs_delete_file(w, fid)
          \/ bd_exists(w)
          \/ bd_remove(w)
          \/ bd_commit(w)
          \/ bd_return(w)
          \/ w_done(w)

SpecBlobSteps == Init /\ [][NextBlobSteps]_vars

(***************************************************************************)
(* The entity store: the functions of DB/db.py on the tables, and          *)
(* DB_NoSQL/db_noSQL.py with the endpoints of NoSQL_dbEndPoint.py on the   *)
(* collections. Each call runs as one step; the import of db_noSQL.py runs *)
(* one step per connection attempt.                                        *)
(***************************************************************************)
InitEntity ==
    /\ queue = <<>>
    /\ issued = {}
    /\ resp = NoResp
    /\ removed = {}
    /\ lock = 0
    /\ pc = [t \in Threads |-> "idle"]
    /\ call = [t \in Threads |-> NoCall]
    /\ loc = [t \in Threads |-> NoLoc]
    /\ ncalls = 0
    /\ seqq = <<>>
    /\ exp = [t \in Threads |-> <<>>]
    /\ delok = [m \in Ids |-> 0]
    /\ limits = DEFAULT_RESOURCE_LIMITS
    /\ disk = [p \in Paths |-> NoFile]
    /\ tables = [n \in EntityTables |-> {}]
    /\ bfiles = {}
    /\ gresp = NoGResp
    /\ wpc = [w \in Workers |-> "idle"]
    /\ wcall = [w \in Workers |-> NoWCall]
    /\ wloc = [w \in Workers |-> NoWLoc]
    /\ wseen = [w \in Workers |-> NoSeen]
    /\ mongo = NoMongo
    /\ colls = NoColls
    /\ oids = {}
    /\ eresp = NoEResp
    /\ units = {}

\* what an entity action leaves alone besides the stores it names
entity_frame == <<qvars, cvars, limits, disk, bfiles, gresp, wvars, units>>

EResp(op, kind, backend, key) ==
    [NoEResp EXCEPT !.op = op, !.kind = kind, !.backend = backend, !.key = key]

\* str(n) of a primary key, str(ObjectId) of a generated id
key_of(n) == [wellformed |-> TRUE, n |-> n]

\* ---- DB/db.py
\* insert_entity (lines 25-30): get_table raises RuntimeError for a table
\* that does not exist; else the row is inserted and its key returned
db_insert_entity(table, entity) ==
    /\ IF ~table_exists(tables, table)
       THEN /\ eresp' = [EResp("insert", "sql", table, NoKey)
                           EXCEPT !.error = "RuntimeError", !.sent = {entity}]
            /\ UNCHANGED tables
       ELSE /\ next_id(tables[table]) <= MaxRowId
            /\ tables' = insert_entity(tables, table, entity)
            /\ eresp' = [EResp("insert", "sql", table, NoKey)
                           EXCEPT !.ret = key_of(next_id(tables[table])),
                                  !.sent = {entity}]
    /\ UNCHANGED <<entity_frame, mongo, colls, oids>>

\* get_entity_by_id (lines 32-38): the row as a dict, or None
db_get_entity_by_id(table, eid) ==
    /\ eresp' = IF ~table_exists(tables, table)
                THEN [EResp("get", "sql", table, key_of(eid))
                        EXCEPT !.error = "RuntimeError"]
                ELSE [EResp("get", "sql", table, key_of(eid))
                        EXCEPT !.found = get_entity_by_id(tables, table, eid)]
    /\ UNCHANGED <<entity_frame, tables, mongo, colls, oids>>

\* list_entities (lines 40-45)
db_list_entities(table) ==
    /\ eresp' = IF ~table_exists(tables, table)
                THEN [EResp("list", "sql", table, NoKey)
                        EXCEPT !.error = "RuntimeError"]
                ELSE [EResp("list", "sql", table, NoKey)
                        EXCEPT !.found = tables[table]]
    /\ UNCHANGED <<entity_frame, tables, mongo, colls, oids>>

\* delete_entity_by_id (lines 47-53): returns result.rowcount
db_delete_entity_by_id(table, eid) ==
    /\ IF ~table_exists(tables, table)
       THEN /\ eresp' = [EResp("delete", "sql", table, key_of(eid))
                           EXCEPT !.error = "RuntimeError"]
            /\ UNCHANGED tables
       ELSE /\ tables' = delete_entity_by_id(tables, table, eid)
            /\ eresp' = [EResp("delete", "sql", table, key_of(eid))
                           EXCEPT !.count =
                               Cardinality(get_entity_by_id(tables, table, eid))]
    /\ UNCHANGED <<entity_frame, mongo, colls, oids>>

\* ---- DB_NoSQL/db_noSQL.py: the import of the module
\* line 35: the import calls get_mongo_client(); flavour is what the
\* installed pymongo makes of bool(Database)
gm_start(flavour) ==
    /\ mongo.phase = "unloaded"
    /\ mongo' = [mongo EXCEPT !.phase = "connecting", !.bool = flavour]
    /\ UNCHANGED <<entity_frame, tables, colls, oids, eresp>>

\* lines 18-31 and 36-42: one pass of the loop of get_mongo_client. A
\* connection that answers the ping ends the loop (db = client["uws_nosql"]);
\* a failure sleeps retry_delay, doubles it and tries again, and the last
\* failure raises RuntimeError, which the import catches (db = None)
loop_pass_once(m, ok) ==
    IF ok
    THEN [m EXCEPT !.tried = @ + 1, !.db = "Database", !.phase = "loaded"]
    ELSE [m EXCEPT !.tried = @ + 1, !.db = "None", !.phase = "loaded"]
loop_pass(m, ok) ==
    IF ok
    THEN [m EXCEPT !.tried = @ + 1, !.db = "Database", !.phase = "loaded"]
    ELSE IF m.attempt < max_retries - 1
    THEN [m EXCEPT !.tried = @ + 1, !.attempt = @ + 1,
                   !.slept = @ + m.delay, !.delay = @ * 2]
    ELSE [m EXCEPT !.tried = @ + 1, !.db = "None", !.phase = "loaded"]

gm_attempt(ok) ==
    /\ mongo.phase = "connecting"
    /\ mongo' = loop_pass(mongo, ok)
    /\ UNCHANGED <<entity_frame, tables, colls, oids, eresp>>

\* get_mongo_client with a server that refuses the first `fails` attempts
RECURSIVE get_mongo_client(_, _)
get_mongo_client(m, fails) ==
    IF m.phase = "loaded" THEN m
    ELSE IF fails = 0 THEN loop_pass(m, TRUE)
    ELSE get_mongo_client(loop_pass(m, FALSE), fails - 1)

\* lines 34-42 in one step
import_db_noSQL(flavour, fails) ==
    /\ mongo.phase = "unloaded"
    /\ mongo' = get_mongo_client(
                    [mongo EXCEPT !.phase = "connecting", !.bool = flavour], fails)
    /\ UNCHANGED <<entity_frame, tables, colls, oids, eresp>>

\* `if not db: raise RuntimeError("MongoDB not connected")`: the exception
\* the statement raises, "none" when it falls through
db_check(m) ==
    IF m.db = "None" THEN "RuntimeError"
    ELSE IF m.bool = "raises" THEN "NotImplementedError"
    ELSE "none"

\* the documents of db[collection_name]; a collection that does not exist
\* reads as empty
docs_of(cs, name) == IF name \in DOMAIN cs THEN cs[name] ELSE {}

\* collection.insert_one: MongoDB creates the collection when it is missing
insert_one(cs, name, doc) ==
    [n \in DOMAIN cs \cup {name} |-> docs_of(cs, n) \cup
                                       (IF n = name THEN {doc} ELSE {})]

\* collection.delete_one: a missing collection is not created
delete_one(cs, name, oid) ==
    [n \in DOMAIN cs |-> IF n = name THEN {d \in cs[n] : d._id # oid} ELSE cs[n]]

\* the ObjectId the driver generates for a document without _id
next_oid(done) == Cardinality(done) + 1

\* ObjectId(entity_id): <<the id>>, or <<>> when bson raises InvalidId
ObjectId(s) == IF s.wellformed THEN <<s.n>> ELSE <<>>

\* base64.b64encode(file_bytes).decode("utf-8")
b64encode(bytes) == <<"base64", bytes>>

\* ---- DB_NoSQL/NoSQL_dbEndPoint.py
\* POST /nosql/{collection_name}/save (lines 31-46), with insert_entity of
\* db_noSQL.py (lines 45-51)
nosql_save_entity(coll, file, entity) ==
    /\ mongo.phase = "loaded"
    /\ LET data == [fields |-> entity,
                    file_data_base64 |-> IF file = <<>> THEN <<>>
                                         ELSE b64encode(file[1])]
           r == EResp("save", "nosql", coll, NoKey)
       IN  IF file = <<>> /\ entity = <<>>
           THEN /\ eresp' = [r EXCEPT !.status = 400]
                /\ UNCHANGED <<colls, oids>>
           ELSE IF db_check(mongo) # "none"
           THEN /\ eresp' = [r EXCEPT !.status = 500, !.error = db_check(mongo),
                                      !.sent = {data}]
                /\ UNCHANGED <<colls, oids>>
           ELSE /\ next_oid(oids) <= MaxOid
                /\ oids' = oids \cup {next_oid(oids)}
                /\ colls' = insert_one(colls, coll,
                               [_id |-> next_oid(oids), data |-> data])
                /\ eresp' = [r EXCEPT !.status = 200, !.sent = {data},
                                      !.ret = key_of(next_oid(oids))]
    /\ UNCHANGED <<entity_frame, tables, mongo>>

\* GET /nosql/{collection_name}/get/{entity_id} (lines 75-81), with
\* get_entity_by_id of db_noSQL.py (lines 54-59)
nosql_get_entity(coll, key) ==
    /\ mongo.phase = "loaded"
    /\ LET r == EResp("get", "nosql", coll, key)
       IN  eresp' =
             IF db_check(mongo) # "none"
             THEN [r EXCEPT !.status = 500, !.error = db_check(mongo)]
             ELSE IF ObjectId(key) = <<>>
             THEN [r EXCEPT !.status = 500, !.error = "InvalidId"]
             ELSE LET doc == {d \in docs_of(colls, coll) : d._id = ObjectId(key)[1]}
                  IN  IF doc = {} THEN [r EXCEPT !.status = 404]
                      ELSE [r EXCEPT !.status = 200, !.found = doc]
    /\ UNCHANGED <<entity_frame, tables, mongo, colls, oids>>

\* GET /nosql/{collection_name}/scan (lines 67-72), with list_entities of
\* db_noSQL.py (lines 62-67)
nosql_complete_scan(coll) ==
    /\ mongo.phase = "loaded"
    /\ LET r == EResp("list", "nosql", coll, NoKey)
       IN  eresp' =
             IF db_check(mongo) # "none"
             THEN [r EXCEPT !.status = 500, !.error = db_check(mongo)]
             ELSE [r EXCEPT !.status = 200, !.found = docs_of(colls, coll)]
    /\ UNCHANGED <<entity_frame, tables, mongo, colls, oids>>

\* DELETE /nosql/{collection_name}/delete/{entity_id} (lines 84-89), with
\* delete_entity_by_id of db_noSQL.py (lines 70-76)
nosql_delete_entity(coll, key) ==
    /\ mongo.phase = "loaded"
    /\ LET r == EResp("delete", "nosql", coll, key)
       IN  IF db_check(mongo) # "none"
           THEN /\ eresp' = [r EXCEPT !.status = 500, !.error = db_check(mongo)]
                /\ UNCHANGED colls
           ELSE IF ObjectId(key) = <<>>
           THEN /\ eresp' = [r EXCEPT !.status = 500, !.error = "InvalidId"]
                /\ UNCHANGED colls
           ELSE LET oid == ObjectId(key)[1]
                    deleted_count ==
                        Cardinality({d \in docs_of(colls, coll) : d._id = oid})
                IN  /\ colls' = delete_one(colls, coll, oid)
                    /\ eresp' = [r EXCEPT !.count = deleted_count,
                                          !.status = IF deleted_count = 0
                                                     THEN 404 ELSE 200]
    /\ UNCHANGED <<entity_frame, tables, mongo, oids>>

\* the server answers the first ping
ImportFails == {0}
\* the requests of SpecEntity carry a JSON body and no upload
EntBodies == {<<[kind |-> "note"]>>}
EntUploads == {<<>>}
\* and a row of one user
EntRows == {e \in EntityRows : e.user_id = "alice"}

\* an insert while the keys of the table are below MaxEntId
ent_insert_entity(table, entity) ==
    /\ table_exists(tables, table) => next_id(tables[table]) <= MaxEntId
    /\ db_insert_entity(table, entity)

NextEntity ==
    \/ \E table \in TableNames \cup EntityTables, entity \in EntRows :
          ent_insert_entity(table, entity)
    \/ \E table \in TableNames \cup EntityTables, eid \in 1..MaxEntId :
          db_get_entity_by_id(table, eid)
    \/ \E table \in TableNames \cup EntityTables : db_list_entities(table)
    \/ \E table \in TableNames \cup EntityTables, eid \in 1..MaxEntId :
          db_delete_entity_by_id(table, eid)
    \/ \E flavour \in BoolFlavours, fails \in ImportFails :
          import_db_noSQL(flavour, fails)
    \/ \E coll \in CollNames, file \in EntUploads, entity \in EntBodies :
          nosql_save_entity(coll, file, entity)
    \/ \E coll \in CollNames, key \in IdStrings : nosql_get_entity(coll, key)
    \/ \E coll \in CollNames : nosql_complete_scan(coll)
    \/ \E coll \in CollNames, key \in IdStrings : nosql_delete_entity(coll, key)

SpecEntity == InitEntity /\ [][NextEntity]_vars

\* the relational store alone, with the rows of two users
NextRows ==
    \/ \E table \in TableNames \cup EntityTables, entity \in EntityRows :
          db_insert_entity(table, entity)
    \/ \E table \in TableNames \cup EntityTables, eid \in RowIds :
          db_get_entity_by_id(table, eid)
    \/ \E table \in TableNames \cup EntityTables : db_list_entities(table)
    \/ \E table \in TableNames \cup EntityTables, eid \in RowIds :
          db_delete_entity_by_id(table, eid)

SpecRows == InitEntity /\ [][NextRows]_vars

\* the document store, its import one step per connection attempt, beside
\* the relational insert
NextDocs ==
    \/ \E table \in TableNames, entity \in EntRows :
          ent_insert_entity(table, entity)
    \/ \E flavour \in BoolFlavours : gm_start(flavour)
    \/ \E ok \in BOOLEAN : gm_attempt(ok)
    \/ \E coll \in CollNames, file \in EntityUploads, entity \in EntityBodies :
          nosql_save_entity(coll, file, entity)
    \/ \E coll \in CollNames, key \in IdStrings : nosql_get_entity(coll, key)
    \/ \E coll \in CollNames : nosql_complete_scan(coll)
    \/ \E coll \in CollNames, key \in IdStrings : nosql_delete_entity(coll, key)

SpecDocs == Init /\ [][NextDocs]_vars

(***************************************************************************)
(* The units of work of the stores: the sessions of Buckets/buckets.py     *)
(* (delete_file one step per statement, requests served concurrently) and  *)
(* the connection of insert_entity of DB/db.py, which the function takes   *)
(* and gives back inside one `with` block.                                 *)
(***************************************************************************)
NextUnits ==
    \/ \E user \in GwUsers, bucket \in GwBuckets, filename \in GwFilenames,
          content \in Contents, sig \in Signatures :
          buckets_upload_file(user, bucket, filename, content, sig)
    \/ \E table \in TableNames, entity \in EntRows :
          db_insert_entity(table, entity)
    \/ \E w \in Workers :
          \/ \E fid \in RowIds : bd_start(w, fid)
          \/ bd_exists(w)
          \/ bd_remove(w)
          \/ bd_commit(w)
          \/ bd_return(w)
          \/ w_done(w)

SpecUnits == Init /\ [][NextUnits]_vars

(***************************************************************************)
(* DB/dbEndPoint.py delete_file, one step per statement, two requests      *)
(* served concurrently (a `def` handler runs in the thread pool); uploads  *)
(* are served while no delete is in flight.                                *)
(***************************************************************************)
\* lines 89-91: db_file = get_entity_by_id(table_name, entity_id); get_table
\* raises RuntimeError for a missing table (500), no row is 404
dd_start(w, table, eid) ==
    /\ wpc[w] = "idle"
    /\ wcall' = [wcall EXCEPT ![w] = [op |-> "ddelete", req |-> NoReq, sig |-> "",
                                      env |-> NoEnv, id |-> eid]]
    /\ IF ~table_exists(tables, table)
       THEN /\ wloc' = [wloc EXCEPT ![w].table = table, ![w].status = 500]
            /\ wpc' = [wpc EXCEPT ![w] = "ret"]
       ELSE IF get_entity_by_id(tables, table, eid) = {}
       THEN /\ wloc' = [wloc EXCEPT ![w].table = table, ![w].status = 404]
            /\ wpc' = [wpc EXCEPT ![w] = "ret"]
       ELSE /\ wloc' = [wloc EXCEPT
                          ![w].table = table,
                          ![w].row = <<CHOOSE r \in get_entity_by_id(tables, table, eid)
                                          : TRUE>>]
            /\ wpc' = [wpc EXCEPT ![w] = "dd_exists"]
    /\ UNCHANGED <<qvars, cvars, evars, limits, stores, gresp, wseen>>

\* line 92: if os.path.exists(db_file["path"])
dd_exists(w) ==
    /\ wpc[w] = "dd_exists"
    /\ LET present == disk[wloc[w].row[1].path] # NoFile
       IN  /\ wloc' = [wloc EXCEPT ![w].present = present]
           /\ wpc' = [wpc EXCEPT ![w] = IF present THEN "dd_remove" ELSE "dd_delete"]
    /\ UNCHANGED <<qvars, cvars, evars, limits, stores, gresp, wcall, wseen>>

\* line 93: os.remove(db_file["path"]), which raises FileNotFoundError (the
\* request fails with 500) when the file is gone
dd_remove(w) ==
    /\ wpc[w] = "dd_remove"
    /\ IF disk[wloc[w].row[1].path] = NoFile
       THEN /\ wloc' = [wloc EXCEPT ![w].status = 500]
            /\ wpc' = [wpc EXCEPT ![w] = "ret"]
            /\ UNCHANGED disk
       ELSE /\ disk' = [disk EXCEPT ![wloc[w].row[1].path] = NoFile]
            /\ wloc' = [wloc EXCEPT ![w].unlinked = TRUE]
            /\ wpc' = [wpc EXCEPT ![w] = "dd_delete"]
    /\ UNCHANGED <<qvars, cvars, evars, limits, tables, bfiles, gresp, wcall, wseen>>

\* line 94: deleted_count = delete_entity_by_id(table_name, entity_id), the
\* rowcount of the DELETE
dd_delete(w) ==
    /\ wpc[w] = "dd_delete"
    /\ wloc' = [wloc EXCEPT ![w].count =
                  Cardinality(get_entity_by_id(tables, wloc[w].table, wcall[w].id))]
    /\ tables' = delete_entity_by_id(tables, wloc[w].table, wcall[w].id)
    /\ wpc' = [wpc EXCEPT ![w] = "dd_ret"]
    /\ UNCHANGED <<qvars, cvars, evars, limits, disk, bfiles, gresp, wcall, wseen>>

\* lines 95-97
dd_return_zero_is_404(w) ==
    /\ wpc[w] = "dd_ret"
    /\ wloc' = [wloc EXCEPT
                  ![w].status = IF wloc[w].count # 0 THEN 200 ELSE 404,
                  ![w].detail = IF wloc[w].count # 0
                                THEN "File deleted successfully."
                                ELSE "File not found"]
    /\ wpc' = [wpc EXCEPT ![w] = "ret"]
    /\ UNCHANGED <<qvars, cvars, evars, limits, stores, gresp, wcall, wseen>>
dd_return(w) ==
    /\ wpc[w] = "dd_ret"
    /\ wloc' = [wloc EXCEPT
                  ![w].status = 200,
                  ![w].detail = IF wloc[w].count # 0
                                THEN "File deleted successfully."
                                ELSE "File not deleted."]
    /\ wpc' = [wpc EXCEPT ![w] = "ret"]
    /\ UNCHANGED <<qvars, cvars, evars, limits, stores, gresp, wcall, wseen>>

\* an upload served while no delete is in flight
ds_upload_file(table, user, bucket, filename, content, sig) ==
    AllIdle /\ db_upload_file(table, user, bucket, filename, content, sig)

NextDeletes ==
    \/ \E table \in TableNames, user \in GwUsers, bucket \in GwBuckets,
          filename \in GwFilenames, content \in Contents, sig \in Signatures :
          ds_upload_file(table, user, bucket, filename, content, sig)
    \/ \E w \in Workers :
          \/ \E table \in TableNames, eid \in RowIds : dd_start(w, table, eid)
          \/ dd_exists(w)
          \/ dd_remove(w)
          \/ dd_delete(w)
          \/ dd_return(w)
          \/ w_done(w)

SpecDeletes == Init /\ [][NextDeletes]_vars

(***************************************************************************)
(* Uploads of several owners and buckets under the same filenames, served  *)
(* one request at a time by Buckets/buckets.py and DB/dbEndPoint.py, with  *)
(* the list, download and delete endpoints of both services.               *)
(***************************************************************************)
\* who uploads, and into which bucket
SharedOwners == {[user_id |-> "alice", bucket |-> "b1"],
                 [user_id |-> "bob", bucket |-> "b2"]}
SharedContents == {"x"}

NextShared ==
    \/ \E o \in SharedOwners, filename \in GwFilenames, content \in SharedContents :
          buckets_upload_file(o.user_id, o.bucket, filename, content,
                              VALID_SIGNATURE)
    \/ buckets_list_files
    \/ \E fid \in RowIds : buckets_download_file(fid)
    \/ \E fid \in RowIds : buckets_delete_file(fid)
    \/ \E o \in SharedOwners, filename \in GwFilenames, content \in SharedContents :
          db_upload_file("files", o.user_id, o.bucket, filename, content,
                         VALID_SIGNATURE)
    \/ db_list_files("files")
    \/ \E eid \in RowIds : db_download_file("files", eid)
    \/ \E eid \in RowIds : db_delete_file("files", eid)

SpecShared == Init /\ [][NextShared]_vars

(***************************************************************************)
(* Properties of the queue endpoints (Spec).                               *)
(***************************************************************************)
IsPrefix(s, t) == Len(s) <= Len(t) /\ \A i \in 1..Len(s) : s[i] = t[i]

HeldIds == {queue[i].id : i \in 1..Len(queue)}

\* C1: a read returns a prefix of the held messages, at most `limit` of
\* them for every integer limit the endpoint accepts (none when the limit
\* is negative), and exactly min(limit, n) of the n held messages when
\* limit >= 0.
C1_PeekAtMostLimit ==
    resp.op = "read" =>
        /\ IsPrefix(resp.msgs, queue)
        /\ Len(resp.msgs) <= Max(resp.limit, 0)
        /\ (resp.limit >= 0 => Len(resp.msgs) = Min(resp.limit, Len(queue)))

\* C2: a read leaves the queue as it was, and a read that follows a read
\* with the same limit returns the same sequence.
C2_PeekNonDestructive ==
    [][resp'.op = "read" =>
          /\ queue' = queue
          /\ resp'.msgs = read_messages(queue', resp'.limit)
          /\ (resp.op = "read" /\ resp.limit = resp'.limit
                => resp'.msgs = resp.msgs)]_vars

C2_Witness ==
    /\ resp.op = "read"
    /\ Len(queue) >= 2
    /\ Len(resp.msgs) >= 1
    /\ resp.msgs = read_messages(queue, resp.limit)

\* C3: a delete of an id that is held removes the first message with that
\* id and nothing else, keeps the order of the others and answers 200; a
\* delete of an id that is not held answers 404 and leaves the queue.
C3_RemoveFirstMatchOnly ==
    [][resp'.op = "delete" =>
          IF resp'.id \in HeldIds
          THEN /\ resp'.status = 200
               /\ \E i \in 1..Len(queue) :
                     /\ queue[i].id = resp'.id
                     /\ \A j \in 1..(i - 1) : queue[j].id # resp'.id
                     /\ Len(queue') = Len(queue) - 1
                     /\ \A j \in 1..(i - 1) : queue'[j] = queue[j]
                     /\ \A j \in i..Len(queue') : queue'[j] = queue[j + 1]
          ELSE /\ resp'.status = 404
               /\ queue' = queue]_vars

C3_Witness ==
    /\ resp.op = "delete"
    /\ resp.status = 200
    /\ Len(queue) >= 2
    /\ \E i \in 1..Len(queue) : queue[i].id > resp.id
    /\ \E i \in 1..Len(queue) : queue[i].id < resp.id

\* C4: once a delete of an id has succeeded, no read returns a message with
\* that id and every delete of that id answers 404.
C4_RemovedStaysRemoved ==
    [][\A mid \in removed :
          /\ mid \notin {queue'[i].id : i \in 1..Len(queue')}
          /\ (resp'.op = "read" =>
                \A i \in 1..Len(resp'.msgs) : resp'.msgs[i].id # mid)
          /\ (resp'.op = "delete" /\ resp'.id = mid => resp'.status = 404)]_vars

C4_Witness ==
    /\ resp.op = "delete"
    /\ resp.id \in removed
    /\ resp.status = 404
    /\ Len(queue) >= 1

\* C6: an enqueue appends the new message at the tail and returns an id no
\* earlier enqueue has returned; no two held messages share an id.
C6_EnqueueTailFreshId ==
    /\ [](\A i, j \in 1..Len(queue) : queue[i].id = queue[j].id => i = j)
    /\ [][resp'.op = "add" /\ resp'.status = 200 =>
            /\ resp'.id \notin issued
            /\ resp'.msgs[1].id = resp'.id
            /\ queue' = Append(queue, resp'.msgs[1])]_vars

C6_Witness ==
    /\ resp.op = "add"
    /\ resp.status = 200
    /\ Len(queue) >= 2
    /\ removed # {}
    /\ queue[Len(queue)].id = resp.id

\* C7: a held message stays held, no further from the head, through every
\* request but a successful delete of its own id, and every read whose
\* limit reaches its position returns it.
C7_VisibleUntilRemoved ==
    [][\A i \in 1..Len(queue) :
          \/ resp'.op = "delete" /\ resp'.id = queue[i].id /\ resp'.status = 200
          \/ /\ \E j \in 1..i :
                  /\ j <= Len(queue')
                  /\ queue'[j] = queue[i]
                  /\ \A limit \in Limits :
                        limit >= j => read_messages(queue', limit)[j] = queue[i]
             /\ (resp'.op = "read" /\ resp'.limit >= i
                   => resp'.msgs[i] = queue[i])]_vars

C7_Witness ==
    /\ resp.op = "read"
    /\ removed # {}
    /\ Len(queue) >= 2
    /\ resp.msgs = queue

(***************************************************************************)
(* Properties of the queue under concurrent callers (SpecConc).            *)
(***************************************************************************)
\* the ids whose append has run
Appended == issued \ {loc[t].mid : t \in {u \in Threads : pc[u] = "a_lock"}}

\* C5: the concurrent calls are serialized by the lock. Whenever the lock is
\* free the queue is the one the same calls leave when run one at a time in
\* the order in which they took the lock, and every result is the result of
\* that run; a read copies a queue no call is in the middle of changing; no
\* appended message is missing unless a delete removed it, and no id is
\* removed by two deletes.
C5_Serialized ==
    /\ lock = 0 => queue = seqq
    /\ \A t \in Threads : pc[t] = "ret" => loc[t].ret = exp[t]
    /\ \A t \in Threads : pc[t] = "r_slice" => loc[t].copy = seqq
    /\ lock = 0 => HeldIds = Appended \ {m \in Ids : delok[m] > 0}
    /\ \A m \in Ids : delok[m] <= 1
    /\ \A t, u \in Threads :
          (t # u /\ pc[t] \in {"a_append", "a_unlock", "r_copy", "r_slice",
                               "d_next", "d_cmp", "d_del", "d_unlock"})
             => pc[u] \in {"idle", "a_lock", "r_lock", "d_lock", "ret"}

\* two threads asked to delete the same held id at the same time: one
\* removed it, the other found nothing
C5_Witness ==
    \E t, u \in Threads :
        /\ t # u
        /\ pc[t] = "ret" /\ call[t].op = "delete" /\ loc[t].ret = TRUE
        /\ pc[u] = "ret" /\ call[u].op = "delete" /\ loc[u].ret = FALSE
        /\ call[t].id = call[u].id

(***************************************************************************)
(* Properties of the signature check and the admission check (SpecGateway).*)
(***************************************************************************)
\* the endpoints of SpecGateway that take the X-Signature header
GatedHandlers == {"db_upload", "buckets_upload", "update_limits"}

\* the sampled values violate none of the limits
WithinLimits(lim, env) ==
    /\ env.cpu <= lim.max_cpu_percent
    /\ env.ram <= lim.max_ram_mb
    /\ env.free >= lim.max_disk_gb

\* C8: a gated request whose X-Signature differs from the secret is answered
\* 401 before the admission check samples anything and before any store
\* operation: no file is written, no row is inserted and the limits are
\* unchanged.
C8_UnauthorizedNoEffect ==
    [][(gresp'.handler \in GatedHandlers /\ gresp'.sig # VALID_SIGNATURE) =>
          /\ gresp'.status = 401
          /\ gresp'.sampled = <<>>
          /\ UNCHANGED <<disk, tables, bfiles, limits>>]_vars

C8_Witness ==
    /\ gresp.handler = "buckets_upload"
    /\ gresp.sig # VALID_SIGNATURE
    /\ gresp.status = 401
    /\ bfiles # {}
    /\ tables["files"] # {}
    /\ limits # DEFAULT_RESOURCE_LIMITS

C10_FirstViolationReported ==
    (gresp.handler = "db_upload" /\ gresp.sig = VALID_SIGNATURE) =>
        LET e == gresp.env
            cpuBad == e.cpu > limits.max_cpu_percent
            ramBad == e.ram > limits.max_ram_mb
            diskBad == e.free < limits.max_disk_gb
        IN  /\ cpuBad =>
                 /\ gresp.status = 503 /\ gresp.dim = "cpu"
                 /\ gresp.sampled = <<"cpu">>
            /\ (~cpuBad /\ ramBad) =>
                 /\ gresp.status = 503 /\ gresp.dim = "ram"
                 /\ gresp.sampled = <<"cpu", "ram">>
            /\ (~cpuBad /\ ~ramBad /\ diskBad) =>
                 /\ gresp.status = 507 /\ gresp.dim = "disk"
                 /\ gresp.sampled = <<"cpu", "ram", "disk">>
            /\ (~cpuBad /\ ~ramBad /\ ~diskBad) =>
                 /\ gresp.status \notin {503, 507} /\ gresp.dim = "none"
                 /\ gresp.sampled = <<"cpu", "ram", "disk">>

\* CPU, RAM and disk are all violated, and the rejection names CPU
C10_Witness ==
    /\ gresp.handler = "db_upload"
    /\ gresp.status = 503
    /\ gresp.dim = "cpu"
    /\ gresp.env.ram > limits.max_ram_mb
    /\ gresp.env.free < limits.max_disk_gb

\* C11: when the admission check rejects the relational blob upload (a
\* sampled CPU, RAM or disk value violates the current limit) the upload is
\* answered 503 or 507 and the write is never attempted: no file is written
\* and no row is inserted, so the file system and the tables are as before.
C11_RejectedWritesNothing ==
    [][(gresp'.handler = "db_upload" /\ gresp'.sig = VALID_SIGNATURE
          /\ ~WithinLimits(limits, gresp'.env)) =>
          /\ gresp'.status \in {503, 507}
          /\ UNCHANGED <<disk, tables, bfiles>>]_vars

\* an upload is rejected for disk space after an earlier upload was stored
C11_Witness ==
    /\ gresp.handler = "db_upload"
    /\ gresp.status = 507
    /\ ~WithinLimits(limits, gresp.env)
    /\ disk[db_path("f")] # NoFile
    /\ tables["files"] # {}

(***************************************************************************)
(* Properties of the blob endpoints with their reads (SpecBlob).           *)
(***************************************************************************)
\* the list and download endpoints of both services
ReadHandlers == {"db_list", "db_download", "buckets_list", "buckets_download"}

\* C12 as claimed: no read, a read-only query included, runs the admission
\* check or is answered 503 or 507.
C12_NoReadIsGated ==
    gresp.handler \in ReadHandlers \cup {"sql_select"} =>
        /\ gresp.sampled = <<>>
        /\ gresp.status \notin {503, 507}

\* C12 as amended: list and download sample nothing, are never answered 503
\* or 507, change no store and return what the store holds whatever the CPU,
\* RAM and disk pressure; a query sent to the query endpoint is admission
\* checked whatever its statement, so that an authorized SELECT is answered
\* 503 or 507 exactly when a sampled value violates its limit.
C12_ListAndDownloadUngated ==
    [][/\ gresp'.handler \in ReadHandlers =>
             /\ gresp'.sampled = <<>>
             /\ gresp'.status \notin {503, 507}
             /\ UNCHANGED <<limits, disk, tables, bfiles>>
       /\ gresp'.handler = "buckets_list" =>
             gresp'.status = 200 /\ gresp'.rows = bfiles
       /\ gresp'.handler = "buckets_download" =>
             /\ gresp'.status = download_result(bfiles, disk, gresp'.id).status
             /\ gresp'.body = download_result(bfiles, disk, gresp'.id).body
       /\ (gresp'.handler = "db_list" /\ gresp'.status = 200) =>
             gresp'.rows = tables["files"]
       /\ (gresp'.handler = "db_download" /\ gresp'.status # 500) =>
             /\ gresp'.status = download_result(tables["files"], disk, gresp'.id).status
             /\ gresp'.body = download_result(tables["files"], disk, gresp'.id).body
       /\ (gresp'.handler \in {"sql_select", "sql_write"}
             /\ gresp'.sig = VALID_SIGNATURE) =>
             /\ gresp'.sampled # <<>>
             /\ WithinLimits(limits, gresp'.env) <=> gresp'.status \notin {503, 507}
      ]_vars

\* a download returns the stored bytes while CPU, RAM and disk are all
\* beyond their limits
C12_Witness ==
    /\ gresp.handler = "db_download"
    /\ gresp.status = 200
    /\ gresp.body # NoFile
    /\ gresp.env.cpu > limits.max_cpu_percent
    /\ gresp.env.ram > limits.max_ram_mb
    /\ gresp.env.free < limits.max_disk_gb

\* C15: the id a successful upload returns yields the uploaded bytes on
\* download: in the state the upload leaves, download of that id answers
\* 200 with exactly the payload, and a download of that id that comes next
\* returns it; for the bucket service and for the relational blob service.
C15_BlobRoundTrip ==
    /\ []((gresp.handler = "buckets_upload" /\ gresp.status = 200) =>
            download_result(bfiles, disk, gresp.id) =
                [status |-> 200, body |-> gresp.content])
    /\ []((gresp.handler = "db_upload" /\ gresp.status = 200) =>
            download_result(tables["files"], disk, gresp.id) =
                [status |-> 200, body |-> gresp.content])
    /\ [][(gresp.handler = "buckets_upload" /\ gresp.status = 200
            /\ gresp'.handler = "buckets_download" /\ gresp'.id = gresp.id) =>
              /\ gresp'.status = 200
              /\ gresp'.body = gresp.content]_vars

\* the second upload of a name, with other bytes than the first, succeeded
C15_Witness ==
    /\ gresp.handler = "buckets_upload"
    /\ gresp.status = 200
    /\ gresp.content = "y"
    /\ gresp.id = 2
    /\ \E r \in bfiles : r.id = 1
    /\ download_result(bfiles, disk, gresp.id).body = "y"

\* C16: a delete of an id that has a metadata row succeeds, and download of
\* that id then answers 404; a delete of an id with no metadata row answers
\* 404 and leaves the rows and the files as they were. For the bucket
\* service, and for the relational blob service on a table that exists (on
\* a missing table its delete fails with 500, the stores unchanged).
C16_DeleteThenNotFound ==
    [][/\ gresp'.handler = "buckets_delete" =>
             IF \E r \in bfiles : r.id = gresp'.id
             THEN /\ gresp'.status = 200
                  /\ download_result(bfiles', disk', gresp'.id).status = 404
             ELSE /\ gresp'.status = 404
                  /\ UNCHANGED <<disk, tables, bfiles>>
       /\ (gresp'.handler = "db_delete" /\ gresp'.status # 500) =>
             IF \E r \in tables["files"] : r.id = gresp'.id
             THEN /\ gresp'.status = 200
                  /\ download_result(tables'["files"], disk', gresp'.id).status = 404
             ELSE /\ gresp'.status = 404
                  /\ UNCHANGED <<disk, tables, bfiles>>
       /\ (gresp'.handler = "db_delete" /\ gresp'.status = 500) =>
             UNCHANGED <<disk, tables, bfiles>>
       /\ (gresp.handler = "buckets_delete" /\ gresp.status = 200
             /\ gresp'.handler = "buckets_download" /\ gresp'.id = gresp.id) =>
             gresp'.status = 404
       /\ (gresp.handler = "db_delete" /\ gresp.status = 200
             /\ gresp'.handler = "db_download" /\ gresp'.id = gresp.id) =>
             gresp'.status \in {404, 500}
      ]_vars

\* a delete of one of two stored blobs has succeeded
C16_Witness ==
    /\ gresp.handler = "buckets_delete"
    /\ gresp.status = 200
    /\ download_result(bfiles, disk, gresp.id).status = 404
    /\ bfiles # {}
    /\ \A r \in bfiles : r.id # gresp.id

\* what a download of id fid must answer over the rows and the file system:
\* 404 when no row has that id, 404 when the row's path holds no file, and
\* 200 with the bytes at the row's path only when both exist
DownloadAnswers(rows, status, body, fid) ==
    /\ (\A r \in rows : r.id # fid) => status = 404
    /\ \A r \in rows :
          r.id = fid =>
              /\ disk[r.path] = NoFile => (status = 404 /\ body = NoFile)
              /\ disk[r.path] # NoFile => (status = 200 /\ body = disk[r.path])
    /\ status \in {200, 404}
    /\ status = 200 => \E r \in rows : r.id = fid /\ disk[r.path] # NoFile

\* C17: download answers 404 in both drift cases, no metadata row for the
\* id, or a row whose recorded path holds no file, and returns content only
\* when the row and the file both exist; for the bucket service and for the
\* relational blob service on a table that exists.
C17_DownloadDetectsDrift ==
    /\ gresp.handler = "buckets_download" =>
          DownloadAnswers(bfiles, gresp.status, gresp.body, gresp.id)
    /\ (gresp.handler = "db_download" /\ gresp.status # 500) =>
          DownloadAnswers(tables["files"], gresp.status, gresp.body, gresp.id)

\* a row is still listed, its file was removed with another row of the same
\* path, and the download of its id answers 404
C17_Witness ==
    /\ gresp.handler = "buckets_download"
    /\ gresp.status = 404
    /\ \E r \in bfiles : r.id = gresp.id /\ disk[r.path] = NoFile

\* C19: no two metadata rows of a blob store record the same path.
C19_StoragePathUnique ==
    /\ \A r1, r2 \in bfiles : r1.path = r2.path => r1 = r2
    /\ \A r1, r2 \in tables["files"] : r1.path = r2.path => r1 = r2

\* what an accepted upload with response g does to the rows and the files
ReuploadKeepsRows(rows, rowsAfter, g) ==
    LET new == CHOOSE r \in rowsAfter : r.id = g.id
    IN  /\ \A r \in rows : r.id # g.id
        /\ rowsAfter = rows \cup {new}
        /\ disk' = [disk EXCEPT ![new.path] = g.content]
        /\ \A old \in rows :
              old.filename = new.filename =>
                  /\ old \in rowsAfter
                  /\ old.path = new.path
                  /\ download_result(rowsAfter, disk', old.id) =
                        [status |-> 200, body |-> g.content]

\* C20: an upload of a filename that is already stored writes its bytes
\* over the file at the same path and inserts a new row with an id no row
\* holds, and every earlier row stays: download of an earlier id of that
\* filename then returns the bytes of the later upload.
C20_ReuploadOverwrites ==
    [][/\ (gresp'.handler = "buckets_upload" /\ gresp'.status = 200) =>
             ReuploadKeepsRows(bfiles, bfiles', gresp')
       /\ (gresp'.handler = "db_upload" /\ gresp'.status = 200) =>
             ReuploadKeepsRows(tables["files"], tables'["files"], gresp')]_vars

\* two rows record the same path after the second upload of a name, and the
\* first id yields the bytes of the second upload
C20_Witness ==
    /\ gresp.handler = "buckets_upload"
    /\ gresp.status = 200
    /\ gresp.content = "x"
    /\ \E r1, r2 \in bfiles :
          /\ r1.id < r2.id
          /\ r2.id = gresp.id
          /\ r1.path = r2.path
          /\ download_result(bfiles, disk, r1.id).body = "x"

(***************************************************************************)
(* Properties of the resource limits under concurrent requests             *)
(* (SpecLimits).                                                           *)
(***************************************************************************)
\* the statement of update_resource_limits that handles each field
FieldAt == [u_cpu |-> "max_cpu_percent", u_ram |-> "max_ram_mb",
            u_disk |-> "max_disk_gb"]

\* C13: an authorized limits update stores every supplied field with the
\* supplied value before it returns and writes no field that was not
\* supplied: each of its three statements sets its field to the supplied
\* value or leaves it, and touches no other field; an unauthorized update
\* is answered 401 and writes nothing; and no field ever changes except to
\* a value an authorized update in flight supplied for it.
C13_UpdateAppliesSupplied ==
    /\ [](\A w \in Workers :
            (wcall[w].op = "update" /\ wpc[w] = "ret") =>
                IF wcall[w].sig = VALID_SIGNATURE
                THEN /\ wloc[w].status = 200
                     /\ wloc[w].wrote = wcall[w].req
                     /\ wloc[w].body # <<>>
                ELSE /\ wloc[w].status = 401
                     /\ wloc[w].wrote = NoReq)
    /\ [][\A w \in Workers :
            (wpc[w] \in DOMAIN FieldAt /\ wpc'[w] # wpc[w]) =>
                LET f == FieldAt[wpc[w]]
                IN  /\ limits'[f] = IF wcall[w].req[f] # <<>>
                                    THEN wcall[w].req[f][1] ELSE limits[f]
                    /\ \A g \in Fields \ {f} : limits'[g] = limits[g]]_vars
    /\ [][\A f \in Fields :
            limits'[f] # limits[f] =>
                \E w \in Workers :
                    /\ wcall[w].op = "update"
                    /\ wcall[w].sig = VALID_SIGNATURE
                    /\ wcall[w].req[f] = <<limits'[f]>>
                    /\ wpc'[w] # wpc[w]]_vars
    /\ [][\A w \in Workers :
            (wcall[w].op = "update" /\ wpc'[w] = "ret" /\ wpc[w] # "ret") =>
                /\ wpc[w] = "u_ret"
                /\ wloc'[w].body = <<limits>>]_vars

\* an update that supplies the CPU limit alone returns: the CPU limit has
\* the supplied value and the RAM limit the value an earlier update gave it
C13_Witness ==
    \E w \in Workers :
        /\ wcall[w].op = "update"
        /\ wpc[w] = "ret"
        /\ wloc[w].status = 200
        /\ wcall[w].req.max_cpu_percent = <<50>>
        /\ wcall[w].req.max_ram_mb = <<>>
        /\ wloc[w].body = <<limits>>
        /\ limits.max_cpu_percent = 50
        /\ limits.max_ram_mb # DefaultMaxRamMb

\* C14: every limit value an admission check compares against, and every
\* value a limits read returns, is a value the limit has held since that
\* request started: never one that an update replaced before the request
\* started. The check decides by the values it read.
C14_LaterRequestsUseUpdated ==
    \A w \in Workers :
        /\ \A f \in Fields :
              wloc[w].used[f] # <<>> => wloc[w].used[f][1] \in wseen[w][f]
        /\ (wcall[w].op = "get" /\ wpc[w] = "ret" /\ wloc[w].status = 200) =>
              /\ \A f \in Fields : wloc[w].used[f] # <<>>
              /\ wloc[w].body = <<[f \in Fields |-> wloc[w].used[f][1]]>>
        /\ (wcall[w].op = "check" /\ wpc[w] = "ret"
              /\ wcall[w].sig = VALID_SIGNATURE) =>
              LET e == wcall[w].env
                  u == wloc[w].used
              IN  /\ u.max_cpu_percent # <<>>
                  /\ (wloc[w].dim = "cpu") <=> (e.cpu > u.max_cpu_percent[1])
                  /\ (wloc[w].dim = "ram") <=>
                        (u.max_ram_mb # <<>> /\ e.ram > u.max_ram_mb[1])
                  /\ (wloc[w].dim = "disk") <=>
                        (u.max_disk_gb # <<>> /\ e.free < u.max_disk_gb[1])
                  /\ (wloc[w].status = 200) <=> (wloc[w].dim = "none")

\* a check that started after an update had lowered the CPU limit rejects a
\* sample the replaced limit would have admitted
C14_Witness ==
    \E w \in Workers :
        /\ wcall[w].op = "check"
        /\ wpc[w] = "ret"
        /\ wloc[w].status = 503
        /\ wloc[w].dim = "cpu"
        /\ wcall[w].env.cpu = DefaultMaxCpuPercent
        /\ wseen[w].max_cpu_percent = {50}
        /\ \A v \in Workers \ {w} : wpc[v] = "idle"

(***************************************************************************)
(* Properties of the bucket delete, statement by statement                 *)
(* (SpecBlobSteps).                                                        *)
(***************************************************************************)
\* C18: a bucket delete that found a metadata row removes the file first,
\* when it is present, and the row afterwards: the file is removed while
\* the row is still stored, the row is removed when the file is gone, and
\* nothing else changes; when the file is already missing the row is
\* removed all the same; and the call answers 200. A delete that finds no
\* row answers 404.
C18_FileThenRow ==
    /\ [][\A w \in Workers :
            (wcall[w].op = "bdelete" /\ wpc'[w] # wpc[w] /\ disk' # disk) =>
                /\ wpc[w] = "bd_remove"
                /\ wloc[w].row[1] \in bfiles
                /\ disk' = [disk EXCEPT ![wloc[w].row[1].path] = NoFile]
                /\ bfiles' = bfiles]_vars
    /\ [][\A w \in Workers :
            (wcall[w].op = "bdelete" /\ wpc'[w] # wpc[w] /\ bfiles' # bfiles) =>
                /\ wpc[w] = "bd_commit"
                /\ disk[wloc[w].row[1].path] = NoFile
                /\ bfiles' = bfiles \ {wloc[w].row[1]}
                /\ disk' = disk]_vars
    /\ [](\A w \in Workers :
            (wcall[w].op = "bdelete" /\ wpc[w] = "ret") =>
                IF wloc[w].row # <<>>
                THEN /\ wloc[w].status = 200
                     /\ wloc[w].row[1].id = wcall[w].id
                     /\ wloc[w].row[1] \notin bfiles
                     /\ disk[wloc[w].row[1].path] = NoFile
                ELSE /\ wloc[w].status = 404
                     /\ \A r \in bfiles : r.id # wcall[w].id)

\* the delete of a row whose file was already missing has answered 200
C18_Witness ==
    \E w \in Workers :
        /\ wcall[w].op = "bdelete"
        /\ wpc[w] = "ret"
        /\ wloc[w].row # <<>>
        /\ ~wloc[w].present
        /\ wloc[w].status = 200

(***************************************************************************)
(* Properties of the failure paths of the relational blob upload           *)
(* (SpecGateway).                                                          *)
(***************************************************************************)
\* C21: when the relational blob upload has written the bytes and the
\* metadata insert then fails (the table does not exist), the upload fails
\* (500), no table gains or loses a row, and the file written by the request
\* is on disk after the request: the file system is the one before the
\* request with that one file written, nothing removes it again. Only an
\* authorized and admitted upload ends this way.
C21_OrphanOnInsertFailure ==
    [][(gresp'.handler = "db_upload" /\ gresp'.status = 500) =>
          /\ gresp'.sig = VALID_SIGNATURE
          /\ WithinLimits(limits, gresp'.env)
          /\ tables' = tables
          /\ bfiles' = bfiles
          /\ \E f \in Filenames, c \in Contents :
                disk' = [disk EXCEPT ![db_path(f)] = c]]_vars

\* an upload has failed on the insert, its file is on disk and no table
\* holds a row
C21_Witness ==
    /\ gresp.handler = "db_upload"
    /\ gresp.status = 500
    /\ disk[db_path("f")] \in Contents
    /\ \A n \in DOMAIN tables : tables[n] = {}

(***************************************************************************)
(* Properties of the entity store (SpecEntity, SpecRows, SpecDocs).        *)
(***************************************************************************)
\* C22: an insert into a table that does not exist fails with an error,
\* stores nothing and creates no table; an insert (with a payload, on a
\* connected store) into a collection that does not exist succeeds and the
\* collection exists afterwards.
C22_InsertMissingBackend ==
    /\ [][(eresp' # eresp /\ eresp'.op = "insert" /\ eresp'.kind = "sql"
             /\ eresp'.backend \notin DOMAIN tables) =>
             /\ eresp'.error # "none"
             /\ tables' = tables]_vars
    /\ [][(eresp' # eresp /\ eresp'.op = "save" /\ eresp'.kind = "nosql" /\ eresp'.sent # {}
             /\ mongo.db = "Database"
             /\ eresp'.backend \notin DOMAIN colls) =>
             /\ eresp'.status = 200
             /\ eresp'.backend \in DOMAIN colls']_vars

\* C23: a delete on an existing table, or on a collection of a connected
\* store, returns the number of entities it removed: 1 when an entity with
\* that id existed, and no entity of the backend has the id afterwards (a
\* get yields NotFound); 0 when none existed, and then the backend is
\* unchanged and the document endpoint answers 404.
C23_DeleteReturnsCount ==
    /\ [][(eresp' # eresp /\ eresp'.op = "delete" /\ eresp'.kind = "sql"
             /\ eresp'.backend \in DOMAIN tables) =>
             LET t == eresp'.backend
                 k == eresp'.key.n
             IN  /\ eresp'.error = "none"
                 /\ get_entity_by_id(tables', t, k) = {}
                 /\ IF get_entity_by_id(tables, t, k) # {}
                    THEN eresp'.count = 1
                    ELSE eresp'.count = 0 /\ tables' = tables]_vars
    /\ [][(eresp' # eresp /\ eresp'.op = "delete" /\ eresp'.kind = "nosql"
             /\ mongo.db = "Database") =>
             LET c == eresp'.backend
                 held(cs) == {d \in docs_of(cs, c) : key_of(d._id) = eresp'.key}
             IN  /\ held(colls') = {}
                 /\ IF held(colls) # {}
                    THEN eresp'.count = 1 /\ eresp'.status = 200
                    ELSE /\ eresp'.count = 0
                         /\ eresp'.status = 404
                         /\ colls' = colls]_vars

\* C24: an entity operation on backend X reads and changes the entities of
\* X only. A relational call leaves every other table and every collection
\* as it was and creates or drops no table; a document call leaves every
\* other collection and every table as it was and creates no collection
\* but X; a get returns the entities of X with the requested id and a list
\* exactly the entities of X, whatever the other backends hold. So equal
\* keys in two backends coexist and a delete in one leaves the other's.
C24_EntityIsolation ==
    /\ [][(eresp' # eresp /\ eresp'.kind = "sql") =>
             /\ DOMAIN tables' = DOMAIN tables
             /\ \A n \in DOMAIN tables \ {eresp'.backend} : tables'[n] = tables[n]
             /\ colls' = colls
             /\ (eresp'.op = "list" /\ eresp'.error = "none") =>
                    eresp'.found = tables[eresp'.backend]
             /\ (eresp'.op = "get" /\ eresp'.error = "none") =>
                    eresp'.found = {r \in tables[eresp'.backend] :
                                       r.id = eresp'.key.n}]_vars
    /\ [][(eresp' # eresp /\ eresp'.kind = "nosql") =>
             /\ tables' = tables
             /\ DOMAIN colls \subseteq DOMAIN colls'
             /\ DOMAIN colls' \subseteq DOMAIN colls \cup {eresp'.backend}
             /\ \A n \in DOMAIN colls \ {eresp'.backend} : colls'[n] = colls[n]
             /\ (eresp'.op = "list" /\ eresp'.status = 200) =>
                    eresp'.found = docs_of(colls, eresp'.backend)
             /\ (eresp'.op = "get" /\ eresp'.status = 200) =>
                    eresp'.found = {d \in docs_of(colls, eresp'.backend) :
                                       key_of(d._id) = eresp'.key}]_vars

\* key 1 was held by the tables files and items, a delete has removed it
\* from files and items still holds it, beside a stored document
C24_Witness ==
    /\ eresp.op = "delete"
    /\ eresp.kind = "sql"
    /\ eresp.backend = "files"
    /\ eresp.key = key_of(1)
    /\ eresp.count = 1
    /\ get_entity_by_id(tables, "files", 1) = {}
    /\ get_entity_by_id(tables, "items", 1) # {}
    /\ \E c \in DOMAIN colls : colls[c] # {}

\* C25: in every reachable state no two rows of a table have the same
\* primary key; a successful insert returns a key that no row of the table
\* held before it, and a get of that key in the state the insert leaves
\* returns one row, with the fields that were inserted.
C25_PrimaryKeyUnique ==
    /\ [](\A n \in DOMAIN tables : \A r1, r2 \in tables[n] :
            r1.id = r2.id => r1 = r2)
    /\ [][(eresp' # eresp /\ eresp'.op = "insert" /\ eresp'.kind = "sql"
             /\ eresp'.error = "none") =>
             LET t == eresp'.backend
                 k == eresp'.ret.n
             IN  /\ get_entity_by_id(tables, t, k) = {}
                 /\ \E e \in eresp'.sent :
                       get_entity_by_id(tables', t, k) =
                           {[id |-> k, path |-> e.path, filename |-> e.filename,
                             bucket |-> e.bucket, user_id |-> e.user_id]}]_vars

\* an insert into a table that held key 1 has returned key 2, and the two
\* rows carry different fields
C25_Witness ==
    /\ eresp.op = "insert"
    /\ eresp.kind = "sql"
    /\ eresp.ret = key_of(2)
    /\ \E r1, r2 \in tables[eresp.backend] :
          r1.id = 1 /\ r2.id = 2 /\ r1.user_id # r2.user_id

(***************************************************************************)
(* Properties of the units of work (SpecUnits).                            *)
(***************************************************************************)
\* C26: when a store operation has ended, with a response or with an
\* error, no session or connection it opened is still open: a bucket delete
\* that has reached its end holds no session, and an operation that runs
\* in one step leaves the open units as they were.
C26_UnitsReleased ==
    /\ [](\A w \in Workers :
            (wcall[w].op = "bdelete" /\ wpc[w] = "ret") =>
                session(w, wcall[w].id) \notin units)
    /\ [][(gresp' # gresp \/ eresp' # eresp) => units' = units]_vars

(***************************************************************************)
(* Properties of the document store and its connection (SpecDocs).         *)
(***************************************************************************)
\* C27 as stated: no backend call is attempted more than once; for the
\* connection of the document store: at most one connection attempt is made.
C27_NoRetry == mongo.tried <= 1

\* C27: the connection of the document store is the one call that is
\* retried: get_mongo_client makes up to max_retries attempts, each failure
\* but the last followed by a sleep that starts at retry_delay seconds and
\* doubles; it stops at the first success, and gives up (db = None) only
\* after max_retries failures. After that every document operation that
\* reaches the store fails with RuntimeError at once and changes nothing.
\* An insert is executed once: a relational insert adds exactly one row or
\* fails with the tables unchanged, a document insert adds exactly one
\* document or fails with the collections unchanged.
C27_OnlyConnectRetries ==
    /\ [](/\ mongo.tried <= max_retries
          /\ mongo.slept = retry_delay * (2 ^ mongo.attempt - 1)
          /\ mongo.delay = retry_delay * 2 ^ mongo.attempt
          /\ mongo.phase = "connecting" => mongo.tried = mongo.attempt
          /\ (mongo.phase = "loaded" /\ mongo.db = "Database") =>
                 mongo.tried = mongo.attempt + 1
          /\ (mongo.phase = "loaded" /\ mongo.db = "None") =>
                 mongo.tried = max_retries)
    /\ [][(eresp' # eresp /\ eresp'.kind = "nosql" /\ mongo.db = "None") =>
             /\ colls' = colls
             /\ eresp'.status # 400 =>
                    eresp'.status = 500 /\ eresp'.error = "RuntimeError"]_vars
    /\ [][(eresp' # eresp /\ eresp'.op = "save") =>
             IF eresp'.status = 200
             THEN \E d \in docs_of(colls', eresp'.backend) :
                     /\ d \notin docs_of(colls, eresp'.backend)
                     /\ colls' = insert_one(colls, eresp'.backend, d)
             ELSE colls' = colls]_vars
    /\ [][(eresp' # eresp /\ eresp'.op = "insert") =>
             IF eresp'.error = "none"
             THEN Cardinality(tables'[eresp'.backend]) =
                      Cardinality(tables[eresp'.backend]) + 1
             ELSE tables' = tables]_vars

\* the store answered the third attempt, after sleeps of 2 and 4 seconds,
\* and a document has been saved
C27_Witness ==
    /\ mongo.phase = "loaded"
    /\ mongo.db = "Database"
    /\ mongo.tried = 3
    /\ mongo.slept = 6
    /\ eresp.op = "save"
    /\ eresp.status = 200

(***************************************************************************)
(* Properties of the admission comparisons (SpecGateway).                  *)
(***************************************************************************)
\* C28: the admission check of an authorized relational upload rejects
\* (503 or 507) exactly when the sampled CPU percentage is strictly above
\* max_cpu_percent, the resident memory strictly above max_ram_mb or the
\* free disk space strictly below max_disk_gb; samples equal to the three
\* limits are admitted.
C28_StrictComparisons ==
    [][(gresp'.handler = "db_upload" /\ gresp'.sig = VALID_SIGNATURE) =>
          LET e == gresp'.env
              rejected == gresp'.status \in {503, 507}
          IN  /\ rejected <=> \/ e.cpu > limits.max_cpu_percent
                              \/ e.ram > limits.max_ram_mb
                              \/ e.free < limits.max_disk_gb
              /\ (/\ e.cpu = limits.max_cpu_percent
                  /\ e.ram = limits.max_ram_mb
                  /\ e.free = limits.max_disk_gb) => ~rejected]_vars

\* an upload sampled exactly the three limits and was stored
C28_Witness ==
    /\ gresp.handler = "db_upload"
    /\ gresp.status = 200
    /\ gresp.env.cpu = limits.max_cpu_percent
    /\ gresp.env.ram = limits.max_ram_mb
    /\ gresp.env.free = limits.max_disk_gb

(***************************************************************************)
(* Properties of the concurrent relational blob delete (SpecDeletes).      *)
(***************************************************************************)
\* C29: two relational blob deletes of the same id that both found the
\* row and have both ended. A request that reached the row delete answers
\* 200 and never 404: with "File deleted successfully." when its delete
\* removed the row and with "File not deleted." when it removed nothing.
\* The row and the file are gone, exactly one of the two row deletes
\* removed the row, and at most one of the two requests removed the file.
C29_ZeroRowsStillSuccess ==
    \A w, v \in Workers :
        (/\ w # v
         /\ wcall[w].op = "ddelete" /\ wcall[v].op = "ddelete"
         /\ wpc[w] = "ret" /\ wpc[v] = "ret"
         /\ wcall[w].id = wcall[v].id
         /\ wloc[w].row # <<>> /\ wloc[v].row # <<>>) =>
            /\ wloc[w].status # 500 =>
                  /\ wloc[w].status = 200
                  /\ wloc[w].detail = IF wloc[w].count = 0
                                      THEN "File not deleted."
                                      ELSE "File deleted successfully."
            /\ wloc[w].status = 500 => wloc[w].count = 0 /\ ~wloc[w].unlinked
            /\ get_entity_by_id(tables, wloc[w].table, wcall[w].id) = {}
            /\ disk[wloc[w].row[1].path] = NoFile
            /\ wloc[w].count + wloc[v].count = 1
            /\ ~(wloc[w].unlinked /\ wloc[v].unlinked)

\* both requests found the row; one removed the file and the row, the other
\* found the file gone, removed no row and answered 200 "File not deleted."
C29_Witness ==
    \E w, v \in Workers :
        /\ w # v
        /\ wcall[w].op = "ddelete" /\ wcall[v].op = "ddelete"
        /\ wpc[w] = "ret" /\ wpc[v] = "ret"
        /\ wcall[w].id = wcall[v].id
        /\ wloc[w].row # <<>> /\ wloc[v].row # <<>>
        /\ wloc[w].status = 200 /\ wloc[w].count = 0
        /\ wloc[w].detail = "File not deleted."
        /\ wloc[v].status = 200 /\ wloc[v].count = 1 /\ wloc[v].unlinked

\* C30: in buckets.py and dbEndPoint.py the recorded path of an upload is
\* computed from the filename alone, so rows with the same filename record
\* the same path whatever their user_id and bucket; a delete of one of two
\* rows that record the same path removes the file, the other row stays in
\* the listing and a download of its id answers 404.
C30_SharedPathByFilename ==
    /\ [](/\ \A r \in bfiles : r.path = buckets_path(r.filename)
          /\ \A r \in tables["files"] : r.path = db_path(r.filename)
          /\ \A r1, r2 \in bfiles : r1.filename = r2.filename => r1.path = r2.path
          /\ \A r1, r2 \in tables["files"] :
                r1.filename = r2.filename => r1.path = r2.path)
    /\ [][/\ \A r, other \in bfiles :
                (/\ other # r /\ other.path = r.path
                 /\ gresp'.handler = "buckets_delete" /\ gresp'.status = 200
                 /\ gresp'.id = r.id /\ r \notin bfiles') =>
                    /\ disk'[r.path] = NoFile
                    /\ other \in bfiles'
                    /\ download_result(bfiles', disk', other.id).status = 404
          /\ \A r, other \in tables["files"] :
                (/\ other # r /\ other.path = r.path
                 /\ gresp'.handler = "db_delete" /\ gresp'.status = 200
                 /\ gresp'.id = r.id /\ r \notin tables'["files"]) =>
                    /\ disk'[r.path] = NoFile
                    /\ other \in tables'["files"]
                    /\ download_result(tables'["files"], disk', other.id).status
                          = 404]_vars

\* two uploads of the same filename; the delete of the first row has answered
\* 200; the second row, uploaded by bob into bucket b2, is still stored, its
\* file is gone and a download of its id would answer 404
C30_Witness ==
    /\ gresp.handler = "buckets_delete" /\ gresp.status = 200 /\ gresp.id = 1
    /\ \E r \in bfiles :
          /\ r.id = 2 /\ r.user_id = "bob" /\ r.bucket = "b2"
          /\ disk[r.path] = NoFile
          /\ download_result(bfiles, disk, r.id).status = 404

=============================================================================
